---- MODULE Spec2Model ----
(***************************************************************************)
(* Model of the CNPq payments ETL (src/src/utils.py): the column mapper    *)
(* (normalize_columns), the currency parser                                *)
(* (parse_brazilian_currency_to_float) and the type coercer (coerce_types).*)
(*                                                                         *)
(* Text is modelled character by character: a string is a sequence of     *)
(* one-character strings.  A raw header is a sequence of tokens, a token   *)
(* being a blank " " or a header word.  Accented letters of the source's   *)
(* header names are written without the accent.                            *)
(*                                                                         *)
(* Nulls: NA is the missing value of a text column (pd.NA / None / NaN in  *)
(* an object column), NaN the missing value of a numeric column.  A float  *)
(* is <<sign, digits, scale>>, the decimal number                          *)
(* (-1)^sign * digits / 10^scale with no trailing fractional zero; the     *)
(* decimals of the model are short enough that distinct decimals are       *)
(* distinct doubles.  A nullable integer is <<n>>.                         *)
(***************************************************************************)
EXTENDS Integers, Sequences, FiniteSets, TLC

VARIABLES
    pc,        \* position of the run: "start", then the name of the step done
    year,      \* normalize_columns: the year whose mapping table is used
    raw_df,    \* normalize_columns: the raw frame (a sequence of columns)
    norm_df,   \* normalize_columns: the frame returned
    s_in,      \* parse_brazilian_currency_to_float: the input series
    s_out,     \* parse_brazilian_currency_to_float: the series returned
    df_in,     \* coerce_types: the caller's frame
    df_out,    \* coerce_types: the frame returned
    listing,   \* discover_raw_files: the entries of the raw directory
    found,     \* discover_raw_files: the dict returned, or the error raised
    csv_file,  \* _read_csv_flexible: what read_csv does with the file, per encoding
    read_out,  \* _read_csv_flexible: the encodings tried and the outcome
    save_in,   \* save_preprocessed: the frame, the write_csv flag, the environment
    files,     \* save_preprocessed: the files of data/preprocessed
    dfs,       \* unify_pagamentos: the dict of the three per-year frames
    merged,    \* unify_pagamentos: the frame returned
    raw_files, \* pipeline: the raw CSV file of each year
    cache,     \* pipeline: the yearly Parquet file of each year, or Absent
    out_dfs,   \* pipeline: the dict load_and_standardize_all is filling
    cur,       \* pipeline: the year at hand and its local frame
    trace,     \* pipeline: the steps of the current run, in order
    runs,      \* pipeline: one record per finished run
    LOGGER_utils,      \* get_logger: the global _LOGGER of utils.py
    LOGGER_streamlit,  \* get_logger: the global _LOGGER of utils_streamlit.py
    loggers,   \* get_logger: the loggers of the logging module, by name
    app_log,   \* get_logger: the records written to logs/app.log
    returned,  \* get_logger: what the last call returned
    calls,     \* get_logger: the modules whose get_logger was called, in order
    agg_df,    \* aggregations: the frame given
    agg_call,  \* aggregations: the function called and its arguments
    agg_out    \* aggregations: the table returned, or the error raised

earlyVars == <<year, raw_df, norm_df, s_in, s_out, df_in, df_out>>
discVars  == <<listing, found>>
readVars  == <<csv_file, read_out>>
saveVars  == <<save_in, files>>
unifyVars == <<dfs, merged>>
buildVars == <<raw_files, cache, out_dfs, cur, trace, runs>>
logVars   == <<LOGGER_utils, LOGGER_streamlit, loggers, app_log, returned, calls>>
aggVars   == <<agg_df, agg_call, agg_out>>

vars == <<pc, earlyVars, discVars, readVars, saveVars, unifyVars, buildVars, logVars, aggVars>>

(***************************************************************************)
(* Bounds of the model.                                                    *)
(***************************************************************************)
MaxRawCols == 3     \* raw columns of a frame given to normalize_columns
NRows == 2          \* rows of a raw frame given to normalize_columns
MaxSeries == 2      \* length of a series given to the currency parser
MaxRows == 2        \* rows of a frame given to coerce_types

NA == <<"<NA>">>
NaN == <<>>

(***************************************************************************)
(* Text helpers: str.strip, str.upper, str.replace, str.contains.          *)
(***************************************************************************)
Whitespace == {" "}

RECURSIVE LStrip(_, _)
LStrip(t, chars) ==
    IF t # <<>> /\ Head(t) \in chars THEN LStrip(Tail(t), chars) ELSE t

RECURSIVE RStrip(_, _)
RStrip(t, chars) ==
    IF t # <<>> /\ t[Len(t)] \in chars
    THEN RStrip(SubSeq(t, 1, Len(t) - 1), chars)
    ELSE t

Strip(t, chars) == RStrip(LStrip(t, chars), chars)

\* t starts with the literal p
StartsWith(t, p) == Len(t) >= Len(p) /\ SubSeq(t, 1, Len(p)) = p

\* str.contains(p, regex=False): the literal p occurs in t
Contains(t, p) ==
    \E i \in 1..(Len(t) - Len(p) + 1) : SubSeq(t, i, i + Len(p) - 1) = p

\* str.replace(p, r, regex=False): every occurrence of the literal p, left to right
RECURSIVE ReplaceAll(_, _, _)
ReplaceAll(t, p, r) ==
    IF t = <<>> THEN <<>>
    ELSE IF StartsWith(t, p)
         THEN r \o ReplaceAll(SubSeq(t, Len(p) + 1, Len(t)), p, r)
         ELSE <<Head(t)>> \o ReplaceAll(Tail(t), p, r)

Lower == <<"a","b","c","d","e","f","g","h","i","j","k","l","m",
           "n","o","p","q","r","s","t","u","v","w","x","y","z">>
UpperAZ == <<"A","B","C","D","E","F","G","H","I","J","K","L","M",
             "N","O","P","Q","R","S","T","U","V","W","X","Y","Z">>
AZ == {UpperAZ[i] : i \in 1..26}
Digits == {"0","1","2","3","4","5","6","7","8","9"}

UpperChar(c) ==
    IF \E i \in 1..26 : Lower[i] = c
    THEN UpperAZ[CHOOSE i \in 1..26 : Lower[i] = c]
    ELSE c

\* str.upper
Upper(t) == [i \in 1..Len(t) |-> UpperChar(t[i])]

\* A string method applied through the .str accessor: NA stays NA
StrStrip(v) == IF v = NA THEN NA ELSE Strip(v, Whitespace)
StrStripChars(v, chars) == IF v = NA THEN NA ELSE Strip(v, chars)
StrUpper(v) == IF v = NA THEN NA ELSE Upper(v)
StrReplace(v, p, r) == IF v = NA THEN NA ELSE ReplaceAll(v, p, r)

(***************************************************************************)
(* Section 3 of utils.py: the canonical schema and the year mappings.      *)
(***************************************************************************)
CANONICAL_COLS == <<
    "ANO_REFERENCIA", "PROCESSO", "DATA_INICIO_PROCESSO", "DATA_TERMINO_PROCESSO",
    "BENEFICIARIO", "CPF_HASH", "LINHA_FOMENTO", "MODALIDADE", "CATEGORIA_NIVEL",
    "NOME_CHAMADA", "PROGRAMA_CNPQ", "GRANDE_AREA", "AREA", "SUBAREA",
    "INSTITUICAO_ORIGEM", "SIGLA_UF_ORIGEM", "PAIS_ORIGEM", "INSTITUICAO_DESTINO",
    "SIGLA_INSTITUICAO_DESTINO", "SIGLA_INSTITUICAO_MACRO", "CIDADE_DESTINO",
    "SIGLA_UF_DESTINO", "REGIAO_DESTINO", "PAIS_DESTINO", "TITULO_PROJETO",
    "PALAVRA_CHAVE", "UO", "NATUREZA_DESPESA", "VALOR_PAGO" >>

CanonicalSet == {CANONICAL_COLS[i] : i \in 1..Len(CANONICAL_COLS)}

\* A mapping table is a sequence of <<raw header, canonical name>> pairs.
MAP_2022 == <<
    <<"Ano Referencia", "ANO_REFERENCIA">>,
    <<"Processo", "PROCESSO">>,
    <<"Data Inicio Processo", "DATA_INICIO_PROCESSO">>,
    <<"Data Termino Processo", "DATA_TERMINO_PROCESSO">>,
    <<"Beneficiario", "BENEFICIARIO">>,
    <<"Linha de Fomento", "LINHA_FOMENTO">>,
    <<"Modalidade", "MODALIDADE">>,
    <<"Categoria/Nivel", "CATEGORIA_NIVEL">>,
    <<"Nome Chamada", "NOME_CHAMADA">>,
    <<"Programa CNPq", "PROGRAMA_CNPQ">>,
    <<"Grande Area", "GRANDE_AREA">>,
    <<"Area", "AREA">>,
    <<"Subarea", "SUBAREA">>,
    <<"Instituicao Origem", "INSTITUICAO_ORIGEM">>,
    <<"Sigla UF Origem", "SIGLA_UF_ORIGEM">>,
    <<"Pais Origem", "PAIS_ORIGEM">>,
    <<"Instituicao Destino", "INSTITUICAO_DESTINO">>,
    <<"Sigla Instituicao Destino", "SIGLA_INSTITUICAO_DESTINO">>,
    <<"Sigla Instituicao Macro", "SIGLA_INSTITUICAO_MACRO">>,
    <<"Cidade Destino", "CIDADE_DESTINO">>,
    <<"Sigla UF Destino", "SIGLA_UF_DESTINO">>,
    <<"Regiao Destino", "REGIAO_DESTINO">>,
    <<"Pais Destino", "PAIS_DESTINO">>,
    <<"Titulo do Projeto", "TITULO_PROJETO">>,
    <<"Palavra Chave", "PALAVRA_CHAVE">>,
    <<"UO", "UO">>,
    <<"Natureza de Despesa", "NATUREZA_DESPESA">>,
    <<"Valor Pago", "VALOR_PAGO">> >>

\* The entries the 2023 and 2024 tables share: each maps a name to itself,
\* except REGIAO.
SnakeCaseEntries == <<
    <<"ANO_REFERENCIA", "ANO_REFERENCIA">>,
    <<"PROCESSO", "PROCESSO">>,
    <<"DATA_INICIO_PROCESSO", "DATA_INICIO_PROCESSO">>,
    <<"DATA_TERMINO_PROCESSO", "DATA_TERMINO_PROCESSO">>,
    <<"BENEFICIARIO", "BENEFICIARIO">>,
    <<"LINHA_FOMENTO", "LINHA_FOMENTO">>,
    <<"MODALIDADE", "MODALIDADE">>,
    <<"CATEGORIA_NIVEL", "CATEGORIA_NIVEL">>,
    <<"NOME_CHAMADA", "NOME_CHAMADA">>,
    <<"PROGRAMA_CNPQ", "PROGRAMA_CNPQ">>,
    <<"GRANDE_AREA", "GRANDE_AREA">>,
    <<"AREA", "AREA">>,
    <<"SUBAREA", "SUBAREA">>,
    <<"INSTITUICAO_ORIGEM", "INSTITUICAO_ORIGEM">>,
    <<"SIGLA_UF_ORIGEM", "SIGLA_UF_ORIGEM">>,
    <<"PAIS_ORIGEM", "PAIS_ORIGEM">>,
    <<"INSTITUICAO_DESTINO", "INSTITUICAO_DESTINO">>,
    <<"SIGLA_INSTITUICAO_DESTINO", "SIGLA_INSTITUICAO_DESTINO">>,
    <<"SIGLA_INSTITUICAO_MACRO", "SIGLA_INSTITUICAO_MACRO">>,
    <<"CIDADE_DESTINO", "CIDADE_DESTINO">>,
    <<"SIGLA_UF_DESTINO", "SIGLA_UF_DESTINO">>,
    <<"REGIAO", "REGIAO_DESTINO">>,
    <<"PAIS_DESTINO", "PAIS_DESTINO">>,
    <<"TITULO_PROJETO", "TITULO_PROJETO">>,
    <<"PALAVRA_CHAVE", "PALAVRA_CHAVE">>,
    <<"VALOR_PAGO", "VALOR_PAGO">> >>

MAP_2023 == SnakeCaseEntries \o << <<"NU_CPF", "CPF_HASH">> >>

MAP_2024 == SnakeCaseEntries \o << <<"CPF ANONIMIZADO", "CPF_HASH">> >>

Years == {2022, 2023, 2024}

\* The mapping load_and_standardize_all passes for each year
MappingOf(y) ==
    CASE y = 2022 -> MAP_2022
      [] y = 2023 -> MAP_2023
      [] y = 2024 -> MAP_2024

MappingKeys(mapping) == {mapping[i][1] : i \in 1..Len(mapping)}

\* dict lookup: the canonical name of the key k
MappingGet(mapping, k) ==
    mapping[CHOOSE i \in 1..Len(mapping) : mapping[i][1] = k][2]

(***************************************************************************)
(* A frame of normalize_columns is a sequence of columns                   *)
(* [label |-> a sequence of tokens, cells |-> a sequence of values].       *)
(* pandas allows several columns with one label.                           *)
(***************************************************************************)
Labels(df) == [i \in 1..Len(df) |-> df[i].label]

LabelSet(df) == {df[i].label : i \in 1..Len(df)}

\* df.columns = [str(c).strip() for c in df.columns]
StripColumns(df) ==
    [i \in 1..Len(df) |-> [df[i] EXCEPT !.label = Strip(df[i].label, Whitespace)]]

\* df.rename(columns=mapping): a label that is a key is replaced, others are kept
RenameLabel(label, mapping) ==
    IF Len(label) = 1 /\ label[1] \in MappingKeys(mapping)
    THEN <<MappingGet(mapping, label[1])>>
    ELSE label

Rename(df, mapping) ==
    [i \in 1..Len(df) |-> [df[i] EXCEPT !.label = RenameLabel(df[i].label, mapping)]]

\* df[names]: for each name in turn, every column carrying that label
RECURSIVE SelectColumns(_, _)
SelectColumns(df, names) ==
    IF names = <<>> THEN <<>>
    ELSE SelectSeq(df, LAMBDA col : col.label = <<Head(names)>>)
         \o SelectColumns(df, Tail(names))

\* keep = [c for c in CANONICAL_COLS if c in df.columns]
KeepList(df) == SelectSeq(CANONICAL_COLS, LAMBDA c : <<c>> \in LabelSet(df))

NullCells(n) == [r \in 1..n |-> NA]

\* for col in CANONICAL_COLS: if col not in df.columns: df[col] = pd.NA
RECURSIVE AddMissing(_, _, _)
AddMissing(df, names, n) ==
    IF names = <<>> THEN df
    ELSE IF <<Head(names)>> \in LabelSet(df)
         THEN AddMissing(df, Tail(names), n)
         ELSE AddMissing(Append(df, [label |-> <<Head(names)>>, cells |-> NullCells(n)]),
                         Tail(names), n)

normalize_columns(df, mapping) ==
    LET renamed == Rename(StripColumns(df), mapping)
        kept    == SelectColumns(renamed, KeepList(renamed))
        filled  == AddMissing(kept, CANONICAL_COLS, NRows)
    IN  SelectColumns(filled, CANONICAL_COLS)

(***************************************************************************)
(* Raw frames given to normalize_columns.  read_csv renames repeated       *)
(* headers ("X", "X.1"), so the raw headers of a frame are pairwise        *)
(* distinct, though two may differ only in surrounding blanks.  The cell   *)
(* of raw column i in row r is the two-character text "ir", so every raw   *)
(* cell is non-null and names the column it came from.                     *)
(***************************************************************************)
RawHeaders == {
    <<"PROCESSO">>, <<" ", "PROCESSO">>, <<"Processo">>, <<"Processo", " ">>,
    <<"UO">>, <<"NU_CPF">>, <<"CPF ANONIMIZADO">>, <<"CPF_HASH">>,
    <<"REGIAO">>, <<"Valor Pago">>, <<"VALOR_PAGO">>, <<"Lixo">> }

DigitChar == <<"1","2","3","4","5","6","7","8","9">>

RawCell(i, r) == <<DigitChar[i], DigitChar[r]>>

RawFrameOf(headers) ==
    [i \in 1..Len(headers) |->
        [label |-> headers[i], cells |-> [r \in 1..NRows |-> RawCell(i, r)]]]

Distinct(seq) == \A i, j \in 1..Len(seq) : i # j => seq[i] # seq[j]

Idle == <<>>

\* The variables of the operations a specification does not exercise
EarlyIdle ==
    /\ year = 2022 /\ raw_df = Idle /\ norm_df = Idle
    /\ s_in = Idle /\ s_out = Idle /\ df_in = Idle /\ df_out = Idle
DiscIdle  == listing = Idle /\ found = Idle
ReadIdle  == csv_file = Idle /\ read_out = Idle
SaveIdle  == save_in = Idle /\ files = Idle
UnifyIdle == dfs = Idle /\ merged = Idle
BuildIdle ==
    /\ raw_files = Idle /\ cache = Idle /\ out_dfs = Idle
    /\ cur = Idle /\ trace = Idle /\ runs = Idle
LogIdle ==
    /\ LOGGER_utils = Idle /\ LOGGER_streamlit = Idle /\ loggers = Idle
    /\ app_log = Idle /\ returned = Idle /\ calls = Idle
AggIdle == agg_df = Idle /\ agg_call = Idle /\ agg_out = Idle
LaterIdle == DiscIdle /\ ReadIdle /\ SaveIdle /\ UnifyIdle /\ BuildIdle /\ LogIdle /\ AggIdle

InitNorm ==
    /\ pc = "start"
    /\ year \in Years
    /\ \E n \in 0..MaxRawCols : \E h \in [1..n -> RawHeaders] :
            Distinct(h) /\ raw_df = RawFrameOf(h)
    /\ norm_df = Idle
    /\ s_in = Idle /\ s_out = Idle /\ df_in = Idle /\ df_out = Idle
    /\ LaterIdle

\* One call normalize_columns(raw_df, MAP_<year>)
NormalizeColumns ==
    /\ pc = "start"
    /\ norm_df' = normalize_columns(raw_df, MappingOf(year))
    /\ pc' = "normalized"
    /\ UNCHANGED <<year, raw_df, s_in, s_out, df_in, df_out, discVars, readVars, saveVars, unifyVars, buildVars, logVars, aggVars>>

NextNorm == NormalizeColumns

SpecNorm == InitNorm /\ [][NextNorm]_vars

(***************************************************************************)
(* Section 4 of utils.py: the currency parser.                             *)
(* A series is [dtype |-> the pandas dtype, values |-> a sequence].        *)
(***************************************************************************)
Series(dtype, values) == [dtype |-> dtype, values |-> values]

\* The outcome of a call that raised instead of returning a series
RAISED == Series("raised", <<>>)

NumericDtypes == {"float64", "Float64", "Int64"}

\* pd.api.types.is_numeric_dtype
is_numeric_dtype(s) == s.dtype \in NumericDtypes

\* Mutant of AsFloat: the cast keeps the magnitude and loses the sign
AsFloat_Magnitude(v) ==
    IF Len(v) = 1 THEN <<0, IF v[1] < 0 THEN -v[1] ELSE v[1], 0>>
    ELSE IF Len(v) = 3 THEN <<0, v[2], v[3]>> ELSE v

\* s.astype(float) of a numeric series: an integer <<n>> becomes the float n
AsFloat(v) ==
    IF Len(v) = 1 THEN <<IF v[1] < 0 THEN 1 ELSE 0, IF v[1] < 0 THEN -v[1] ELSE v[1], 0>>
    ELSE v

\* s.astype("string"): text stays, a missing value is NA
AsString(v) == v

DigitVal(c) ==
    CASE c = "0" -> 0 [] c = "1" -> 1 [] c = "2" -> 2 [] c = "3" -> 3 [] c = "4" -> 4
      [] c = "5" -> 5 [] c = "6" -> 6 [] c = "7" -> 7 [] c = "8" -> 8 [] c = "9" -> 9

RECURSIVE DigitsToNat(_)
DigitsToNat(t) ==
    IF t = <<>> THEN 0
    ELSE 10 * DigitsToNat(SubSeq(t, 1, Len(t) - 1)) + DigitVal(t[Len(t)])

AllDigits(t) == \A i \in 1..Len(t) : t[i] \in Digits

DigitOf(d) ==
    CASE d = 0 -> "0" [] d = 1 -> "1" [] d = 2 -> "2" [] d = 3 -> "3" [] d = 4 -> "4"
      [] d = 5 -> "5" [] d = 6 -> "6" [] d = 7 -> "7" [] d = 8 -> "8" [] d = 9 -> "9"

RECURSIVE NatText(_)
NatText(n) == IF n < 10 THEN <<DigitOf(n)>> ELSE NatText(n \div 10) \o <<DigitOf(n % 10)>>

\* Mutant of IntText: the integer is written with at least four digits
IntText_Padded(n) ==
    LET d == NatText(IF n < 0 THEN -n ELSE n)
        pad == [i \in 1..(IF Len(d) < 4 THEN 4 - Len(d) ELSE 0) |-> "0"]
    IN  (IF n < 0 THEN <<"-">> ELSE <<>>) \o pad \o d

\* The text astype("string") gives an integer: its decimal digits
IntText(n) == IF n < 0 THEN <<"-">> \o NatText(-n) ELSE NatText(n)

\* s.astype("string") by the dtype of s: a nullable integer becomes its
\* decimal text and its null NA; a text column stays as it is
AsStringOf(dtype, v) ==
    IF dtype = "Int64" THEN (IF Len(v) = 0 THEN NA ELSE IntText(v[1])) ELSE AsString(v)

\* The decimal digits / 10^scale without trailing fractional zeros; the sign
\* of zero is not kept.
RECURSIVE MkFloat(_, _, _)
MkFloat(sign, digits, scale) ==
    IF scale > 0 /\ digits % 10 = 0 THEN MkFloat(sign, digits \div 10, scale - 1)
    ELSE <<IF digits = 0 THEN 0 ELSE sign, digits, scale>>

\* The text is a decimal numeral: blanks around it, an optional sign, digits
\* with at most one point and at least one digit.  (Exponents and the words
\* inf and nan need letters the model's texts do not hold.)
NumeralBody(t) ==
    LET u == Strip(t, Whitespace)
    IN  IF u # <<>> /\ Head(u) \in {"-", "+"} THEN Tail(u) ELSE u

\* Mutant of NumeralSign: the sign of the numeral is dropped
NumeralSign_Dropped(t) == 0

NumeralSign(t) ==
    LET u == Strip(t, Whitespace)
    IN  IF u # <<>> /\ Head(u) = "-" THEN 1 ELSE 0

PointAt(b) == IF \E i \in 1..Len(b) : b[i] = "."
              THEN CHOOSE i \in 1..Len(b) : b[i] = "." /\ \A j \in 1..(i - 1) : b[j] # "."
              ELSE Len(b) + 1

IsNumeral(t) ==
    LET b == NumeralBody(t)
        p == PointAt(b)
        int == SubSeq(b, 1, p - 1)
        frac == SubSeq(b, p + 1, Len(b))
    IN  /\ AllDigits(int)
        /\ AllDigits(frac)
        /\ Len(int) + Len(frac) >= 1

NumeralValue(t) ==
    LET b == NumeralBody(t)
        p == PointAt(b)
        int == SubSeq(b, 1, p - 1)
        frac == SubSeq(b, p + 1, Len(b))
    IN  MkFloat(NumeralSign(t), DigitsToNat(int \o frac), Len(frac))

\* pd.to_numeric(values, errors=...): with "coerce" a text that is no numeral
\* becomes NaN; with "raise" the whole call raises.
to_numeric_value(v) == IF v # NA /\ IsNumeral(v) THEN NumeralValue(v) ELSE NaN

Unparseable(v) == v # NA /\ Strip(v, Whitespace) # <<>> /\ ~IsNumeral(v)

to_numeric(values, errors) ==
    IF errors = "raise" /\ \E i \in 1..Len(values) : Unparseable(values[i])
    THEN RAISED
    ELSE Series("float64", [i \in 1..Len(values) |-> to_numeric_value(values[i])])

\* Nullable booleans of a mask: str.contains gives NA for a missing value
BoolNA == "<NA>"
StrContains(v, p) == IF v = NA THEN BoolNA ELSE IF Contains(v, p) THEN "true" ELSE "false"
MaskAnd(a, b) ==
    IF a = "false" \/ b = "false" THEN "false"
    ELSE IF a = BoolNA \/ b = BoolNA THEN BoolNA ELSE "true"
MaskOr(a, b) ==
    IF a = "true" \/ b = "true" THEN "true"
    ELSE IF a = BoolNA \/ b = BoolNA THEN BoolNA ELSE "false"
MaskNot(a) == IF a = BoolNA THEN BoolNA ELSE IF a = "true" THEN "false" ELSE "true"

\* s.where(cond): the value where cond is true, NA elsewhere (a missing cond
\* counts as false)
Where(v, cond) == IF cond = "true" THEN v ELSE NA

\* a.fillna(b), one element
FillNa(a, b) == IF a = NA THEN b ELSE a

\* str.replace(r"R\$|\$", "", regex=True): every "R$" and every "$" is removed
RECURSIVE RemoveCurrency(_)
RemoveCurrency(t) ==
    IF t = <<>> THEN <<>>
    ELSE IF StartsWith(t, <<"R", "$">>) THEN RemoveCurrency(SubSeq(t, 3, Len(t)))
    ELSE IF Head(t) = "$" THEN RemoveCurrency(Tail(t))
    ELSE <<Head(t)>> \o RemoveCurrency(Tail(t))

StrRemoveCurrency(v) == IF v = NA THEN NA ELSE RemoveCurrency(v)

\* Lines 446-452: the text cleaned of blanks, quotes and currency symbols
CleanCurrencyText(v) ==
    StrStrip(StrRemoveCurrency(StrStripChars(StrStrip(AsString(v)), {"\""})))

\* The patterns of lines 456, 460, 466 and 471.  With regex=False the pattern
\* r"\." is the two characters backslash, point.
PointPattern == <<"\\", ".">>
CommaPattern == <<",">>

\* Line 456
IsBrFormat(c) == MaskAnd(StrContains(c, PointPattern), StrContains(c, CommaPattern))

\* Line 460
IsSimpleBr(c) == MaskAnd(StrContains(c, CommaPattern), MaskNot(StrContains(c, PointPattern)))

\* Mutant of FinalCurrencyText: every "," is taken for a thousands separator
FinalCurrencyText_CommaThousands(v) ==
    StrReplace(CleanCurrencyText(v), CommaPattern, <<>>)

\* Lines 465-474: the text handed to pd.to_numeric
FinalCurrencyText(v) ==
    LET c       == CleanCurrencyText(v)
        br      == MaskOr(IsBrFormat(c), IsSimpleBr(c))
        s_br    == StrReplace(StrReplace(Where(c, br), PointPattern, <<>>),
                              CommaPattern, <<".">>)
        s_other == StrReplace(Where(c, MaskNot(br)), CommaPattern, <<>>)
    IN  FillNa(s_br, s_other)

\* Mutant of ToNumericErrors: errors="raise"
ToNumericErrors_Raise == "raise"

\* errors= of the pd.to_numeric call on line 476
ToNumericErrors == "coerce"

parse_brazilian_currency_to_float(s) ==
    IF is_numeric_dtype(s)
    THEN Series("float64", [i \in 1..Len(s.values) |-> AsFloat(s.values[i])])
    ELSE to_numeric([i \in 1..Len(s.values) |-> FinalCurrencyText(s.values[i])],
                    ToNumericErrors)


(***************************************************************************)
(* Section 4 of utils.py: coerce_types.  A frame of coerce_types is a      *)
(* function from column names to series, all of one length.                *)
(***************************************************************************)
DATE_COLS == <<"DATA_INICIO_PROCESSO", "DATA_TERMINO_PROCESSO">>

STRIP_UPPER_COLS == <<
    "ANO_REFERENCIA", "PROCESSO", "BENEFICIARIO", "CPF_HASH", "LINHA_FOMENTO",
    "MODALIDADE", "CATEGORIA_NIVEL", "NOME_CHAMADA", "PROGRAMA_CNPQ", "GRANDE_AREA",
    "AREA", "SUBAREA", "INSTITUICAO_ORIGEM", "SIGLA_UF_ORIGEM", "PAIS_ORIGEM",
    "INSTITUICAO_DESTINO", "SIGLA_INSTITUICAO_DESTINO", "SIGLA_INSTITUICAO_MACRO",
    "CIDADE_DESTINO", "SIGLA_UF_DESTINO", "REGIAO_DESTINO", "PAIS_DESTINO",
    "TITULO_PROJETO", "PALAVRA_CHAVE", "UO", "NATUREZA_DESPESA" >>

\* Mutant of KEEP_CASE_COLS: no column is exempt from upper-casing
KEEP_CASE_COLS_None == {}

\* Line 501: the columns that keep their letter case
KEEP_CASE_COLS == {"TITULO_PROJETO", "PALAVRA_CHAVE", "BENEFICIARIO"}

\* Line 516
UF_COLS == <<"SIGLA_UF_ORIGEM", "SIGLA_UF_DESTINO">>

\* Line 518: .str[:3]
UF_SLICE == 3

\* Line 523: the digits of the pattern (\d{4})
YEAR_DIGITS == 4

NaT == << >>

\* pd.to_datetime(dayfirst=True, errors="coerce", format="mixed") of one text
\* (a column that already holds datetimes is returned as it is: CoerceDates)
\* "dd/mm/yyyy" or "dd/mm/yyyy HH:MM:SS".  With the first number at most 12 and
\* the second above 12 the text is read month first.  Anything else the model
\* holds (empty, letters, an impossible day) is NaT.
IsLeap(y) == (y % 4 = 0 /\ y % 100 # 0) \/ y % 400 = 0

DaysIn(y, m) ==
    CASE m \in {1, 3, 5, 7, 8, 10, 12} -> 31
      [] m \in {4, 6, 9, 11} -> 30
      [] m = 2 -> IF IsLeap(y) THEN 29 ELSE 28
      [] OTHER -> 0

IsClock(t) ==
    /\ Len(t) = 9
    /\ t[1] = " " /\ t[4] = ":" /\ t[7] = ":"
    /\ \A i \in {2, 3, 5, 6, 8, 9} : t[i] \in Digits
    /\ DigitsToNat(SubSeq(t, 2, 3)) < 24
    /\ DigitsToNat(SubSeq(t, 5, 6)) < 60
    /\ DigitsToNat(SubSeq(t, 8, 9)) < 60

IsDateText(t) ==
    /\ Len(t) >= 10
    /\ t[3] = "/" /\ t[6] = "/"
    /\ \A i \in {1, 2, 4, 5, 7, 8, 9, 10} : t[i] \in Digits
    /\ (Len(t) = 10 \/ IsClock(SubSeq(t, 11, Len(t))))

to_datetime_value(v) ==
    IF v = NA \/ ~IsDateText(Strip(v, Whitespace)) THEN NaT
    ELSE LET t == Strip(v, Whitespace)
             a == DigitsToNat(SubSeq(t, 1, 2))
             b == DigitsToNat(SubSeq(t, 4, 5))
             y == DigitsToNat(SubSeq(t, 7, 10))
             monthFirst == a <= 12 /\ b > 12
             d == IF monthFirst THEN b ELSE a
             m == IF monthFirst THEN a ELSE b
             clock == IF Len(t) = 10 THEN <<0, 0, 0>>
                      ELSE <<DigitsToNat(SubSeq(t, 12, 13)), DigitsToNat(SubSeq(t, 15, 16)),
                             DigitsToNat(SubSeq(t, 18, 19))>>
         IN  IF y >= 1 /\ m \in 1..12 /\ d >= 1 /\ d <= DaysIn(y, m)
             THEN <<y, m, d>> \o clock
             ELSE NaT

\* Lines 485-495
CoerceDates(df) ==
    [c \in DOMAIN df |->
        IF \E k \in 1..Len(DATE_COLS) : DATE_COLS[k] = c
        THEN Series("datetime64",
                    [i \in 1..Len(df[c].values) |->
                        IF df[c].dtype = "datetime64" THEN df[c].values[i]
                        ELSE to_datetime_value(df[c].values[i])])
        ELSE df[c]]

\* Lines 500-503, one value
StripUpperValue(c, v) ==
    IF c \in KEEP_CASE_COLS THEN StrStrip(AsString(v)) ELSE StrUpper(StrStrip(AsString(v)))

\* Lines 498-503
CoerceStrings(df) ==
    [c \in DOMAIN df |->
        IF \E k \in 1..Len(STRIP_UPPER_COLS) : STRIP_UPPER_COLS[k] = c
        THEN Series("string", [i \in 1..Len(df[c].values) |->
                                  StripUpperValue(c, AsStringOf(df[c].dtype, df[c].values[i]))])
        ELSE df[c]]

\* Mutant of CoerceValorPago: the rows whose amount does not parse are dropped
CoerceValorPago_DropUnparsed(df) ==
    IF "VALOR_PAGO" \in DOMAIN df
    THEN LET parsed == parse_brazilian_currency_to_float(df["VALOR_PAGO"])
             keep(s) == SelectSeq([i \in 1..Len(s.values) |-> <<i, s.values[i]>>],
                                  LAMBDA e : parsed.values[e[1]] # NaN)
             only(s) == Series(s.dtype, [j \in 1..Len(keep(s)) |-> keep(s)[j][2]])
         IN  [c \in DOMAIN df |-> IF c = "VALOR_PAGO" THEN only(parsed) ELSE only(df[c])]
    ELSE df

\* Lines 506-512
CoerceValorPago(df) ==
    IF "VALOR_PAGO" \in DOMAIN df
    THEN [df EXCEPT !["VALOR_PAGO"] = parse_brazilian_currency_to_float(df["VALOR_PAGO"])]
    ELSE df

\* str.replace(r"[^A-Z]", "", regex=True)
RemoveNonAZ(t) == SelectSeq(t, LAMBDA ch : ch \in AZ)

\* str[:n]
SliceTo(t, n) == SubSeq(t, 1, IF Len(t) < n THEN Len(t) ELSE n)

\* Mutant of NormalizeUF: the slice [:3] is left out
NormalizeUF_NoSlice(v) ==
    IF AsString(v) = NA THEN NA ELSE RemoveNonAZ(Upper(AsString(v)))

\* Line 518, one value
NormalizeUF(v) ==
    IF AsString(v) = NA THEN NA
    ELSE SliceTo(RemoveNonAZ(Upper(AsString(v))), UF_SLICE)

\* Lines 516-518
CoerceUF(df) ==
    [c \in DOMAIN df |->
        IF \E k \in 1..Len(UF_COLS) : UF_COLS[k] = c
        THEN Series("string", [i \in 1..Len(df[c].values) |-> NormalizeUF(df[c].values[i])])
        ELSE df[c]]

\* str.extract(r"(\d{n})", expand=False): the first n consecutive digits, or NA
DigitsAt(t, i, n) == i + n - 1 <= Len(t) /\ \A j \in i..(i + n - 1) : t[j] \in Digits

\* Mutant of ExtractDigits: the pattern (?<!\d)(\d{n})(?!\d), a run of exactly n digits
ExtractDigits_ExactRun(v, n) ==
    LET At(i) == /\ DigitsAt(v, i, n)
                 /\ (i = 1 \/ v[i - 1] \notin Digits)
                 /\ (i + n > Len(v) \/ v[i + n] \notin Digits)
    IN  IF v = NA \/ ~\E i \in 1..Len(v) : At(i) THEN NA
        ELSE LET i == CHOOSE i \in 1..Len(v) : At(i) /\ \A j \in 1..(i - 1) : ~At(j)
             IN  SubSeq(v, i, i + n - 1)

\* Mutant of ExtractDigits: the pattern (\d{n,}), the whole run of n or more digits
ExtractDigits_WholeRun(v, n) ==
    IF v = NA \/ ~\E i \in 1..Len(v) : DigitsAt(v, i, n) THEN NA
    ELSE LET i == CHOOSE i \in 1..Len(v) :
                     DigitsAt(v, i, n) /\ \A j \in 1..(i - 1) : ~DigitsAt(v, j, n)
             e == CHOOSE e \in i..Len(v) :
                     /\ \A j \in i..e : v[j] \in Digits
                     /\ (e = Len(v) \/ v[e + 1] \notin Digits)
         IN  SubSeq(v, i, e)

ExtractDigits(v, n) ==
    IF v = NA \/ ~\E i \in 1..Len(v) : DigitsAt(v, i, n) THEN NA
    ELSE LET i == CHOOSE i \in 1..Len(v) :
                     DigitsAt(v, i, n) /\ \A j \in 1..(i - 1) : ~DigitsAt(v, j, n)
         IN  SubSeq(v, i, i + n - 1)

\* .astype("Int64") of a float holding a whole number
AsInt64(f) == IF f = NaN THEN NaN ELSE <<IF f[1] = 1 THEN -f[2] ELSE f[2]>>

\* Lines 522-524, one value
ExtractYear(v) == AsInt64(to_numeric_value(ExtractDigits(AsString(v), YEAR_DIGITS)))

\* Lines 521-531
CoerceAnoReferencia(df) ==
    IF "ANO_REFERENCIA" \in DOMAIN df
    THEN [df EXCEPT !["ANO_REFERENCIA"] =
             Series("Int64", [i \in 1..Len(df["ANO_REFERENCIA"].values) |->
                                 ExtractYear(df["ANO_REFERENCIA"].values[i])])]
    ELSE df

\* Mutant of CopiesFrame: the steps act on the caller's frame itself
CopiesFrame_Alias == FALSE

\* Line 482: df = df.copy(), the steps act on a copy of the caller's frame
CopiesFrame == TRUE

\* One call of coerce_types: df is the frame returned, caller the caller's
\* frame as the call leaves it.  The call raises when the currency parser does.
coerce_types(df) ==
    LET res == CoerceAnoReferencia(CoerceUF(CoerceValorPago(CoerceStrings(CoerceDates(df)))))
    IN  [raised |-> "VALOR_PAGO" \in DOMAIN res /\ res["VALOR_PAGO"].dtype = "raised",
         df     |-> res,
         caller |-> IF CopiesFrame THEN df ELSE res]

(***************************************************************************)
(* Series given to the currency parser.  A text is a body in a wrapper:    *)
(* the bodies are the documented examples, some further numerals and every *)
(* text of one to three characters over "1", "." and ","; the wrappers add *)
(* the currency symbols, blanks and quotes the parser removes.  One        *)
(* position of the series holds any such text, the others a null, an empty *)
(* or blank text, a malformed text or a plain amount.                      *)
(***************************************************************************)
PunctChars == {"1", ".", ","}

ShortBodies ==
    { <<a>> : a \in PunctChars }
    \cup { <<a, b>> : a \in PunctChars, b \in PunctChars }
    \cup { <<a, b, c>> : a \in PunctChars, b \in PunctChars, c \in PunctChars }

ExampleBodies == {
    <<"1",".","2","3","4",",","5","6">>,
    <<"8",",","1","0","0",".","0","0">>,
    <<"6","0","0",",","0","0">>,
    <<"3","0","0",".","0">>,
    <<"1","5","0","0">>,
    <<"1","\\",".","2","3","4",",","5","6">>,
    <<"1","\\",".","5">>,
    <<"-","5">>,
    <<"-","6","0","0",",","0","0">>,
    <<"-","0">>,
    <<"1"," ","5">>,
    <<"x">>,
    <<"1","x">>,
    <<"R">>,
    <<"-">>,
    << >> }

CurrencyBodies == ExampleBodies \cup ShortBodies

Wrap(w, b) ==
    CASE w = "plain"  -> b
      [] w = "reais"  -> <<"R", "$", " ">> \o b
      [] w = "dollar" -> <<" ", "$", " ">> \o b \o <<" ">>
      [] w = "quoted" -> <<"\"", "R", "$", " ">> \o b \o <<"\"">>

Wrappers == {"plain", "reais", "dollar", "quoted"}

CurrencyTexts == { Wrap(w, b) : w \in Wrappers, b \in CurrencyBodies }

NeighbourValues == { NA, << >>, <<" ">>, <<"x">>, <<"6","0","0",",","0","0">>, <<"-","5">> }

NumericValues == { NaN, <<0, 5, 0>>, <<1, 5, 0>>, <<0, 15, 1>> }

NumericSeries ==
    { Series("float64", v) : v \in UNION { [1..n -> NumericValues] : n \in 1..MaxSeries } }
    \cup { Series("Int64", v) : v \in UNION { [1..n -> {NaN, <<7>>, <<-7>>}] : n \in 1..MaxSeries } }

InitCurrency ==
    /\ pc = "start"
    /\ \/ \E n \in 1..MaxSeries : \E k \in 1..n : \E v \in CurrencyTexts \cup {NA} :
            \E rest \in [1..n -> NeighbourValues] :
                s_in = Series("object", [rest EXCEPT ![k] = v])
       \/ s_in \in NumericSeries
    /\ s_out = Idle
    /\ year = 2022 /\ raw_df = Idle /\ norm_df = Idle /\ df_in = Idle /\ df_out = Idle
    /\ LaterIdle

\* One call parse_brazilian_currency_to_float(s_in)
ParseCurrency ==
    /\ pc = "start"
    /\ s_out' = parse_brazilian_currency_to_float(s_in)
    /\ pc' = "parsed"
    /\ UNCHANGED <<year, raw_df, norm_df, s_in, df_in, df_out, discVars, readVars, saveVars, unifyVars, buildVars, logVars, aggVars>>

NextCurrency == ParseCurrency

SpecCurrency == InitCurrency /\ [][NextCurrency]_vars

(***************************************************************************)
(* Frames given to coerce_types: the 29 canonical columns as read with     *)
(* dtype=str.  One cell of one column holds any text of that column's pool *)
(* (the documented examples among them); the rest of that column holds     *)
(* nulls or typical values, and every other column typical values.         *)
(***************************************************************************)
YearTexts == {
    <<"2","0","2","3">>,
    <<"A","n","o"," ","2","0","2","3"," ","(","p","a","r","c","i","a","l",")">>,
    <<"s","e","m"," ","a","n","o">>,
    <<"0","0","4","2">>,
    <<"1","2","3","4","5">>,
    <<"2","0","2","3","1">>,
    <<"2","0","2","4",".","0">>,
    <<"0","1","/","2","0","2","4">>,
    <<"1","2","3">>,
    <<" ","2","0","2","2"," ">>,
    <<"a","n","o"," ","1","9","9","9"," ","e"," ","2","0","2","4">>,
    <<"1","2","a","3","4","5","6">>,
    << >>,
    <<"1","0","0","0">>,
    <<"9","9","9","9">>,
    NA }

UFTexts == {
    <<"s","p"," ">>,
    <<"s",".","p",".","1">>,
    <<"S","P">>,
    <<"r","j">>,
    << >>,
    <<"1","2","3">>,
    <<"a","b","c","d">>,
    <<" ","d"," ","f"," ">>,
    <<"S","1","P","2","Q","3","R">>,
    <<"a","-","b">>,
    <<"S","a","o"," ","P","a","u","l","o">>,
    <<"x">>,
    NA }

PlainTexts == {
    <<" ","a","b","c"," ">>,
    <<"A","b","c">>,
    <<"X","X","X","X">>,
    << >>,
    <<" ">>,
    <<"a"," ","b">>,
    NA }

DateTexts == {
    <<"3","1","/","1","2","/","2","0","2","2">>,
    <<"0","1","/","0","2","/","2","0","2","3">>,
    <<"0","2","/","1","3","/","2","0","2","3">>,
    <<"3","1","/","0","2","/","2","0","2","2">>,
    <<"2","9","/","0","2","/","2","0","2","4">>,
    <<"3","1","/","1","2","/","2","0","2","2"," ","1","0",":","3","0",":","0","0">>,
    <<"x">>,
    << >>,
    <<" ","0","5","/","0","6","/","2","0","2","2"," ">>,
    <<"3","2","/","0","1","/","2","0","2","2">>,
    NA }

IsDateCol(c) == \E k \in 1..Len(DATE_COLS) : DATE_COLS[k] = c
IsUFCol(c) == \E k \in 1..Len(UF_COLS) : UF_COLS[k] = c

PoolOf(c) ==
    CASE c = "ANO_REFERENCIA" -> YearTexts
      [] c = "VALOR_PAGO" -> CurrencyTexts \cup {NA}
      [] IsUFCol(c) -> UFTexts
      [] IsDateCol(c) -> DateTexts
      [] OTHER -> PlainTexts

TypicalOf(c) ==
    CASE c = "ANO_REFERENCIA" -> <<"2","0","2","3">>
      [] c = "VALOR_PAGO" -> <<"6","0","0",",","0","0">>
      [] IsUFCol(c) -> <<"S","P">>
      [] IsDateCol(c) -> <<"3","1","/","1","2","/","2","0","2","2">>
      [] OTHER -> <<"A","b","c">>

CoerceFrame(n, focus, k, v, rest) ==
    [c \in CanonicalSet |->
        Series("object",
               IF c = focus THEN [rest EXCEPT ![k] = v]
               ELSE [i \in 1..n |-> TypicalOf(c)])]

InitCoerce ==
    /\ pc = "start"
    /\ \E n \in 1..MaxRows : \E focus \in CanonicalSet : \E k \in 1..n :
         \E v \in PoolOf(focus) : \E rest \in [1..n -> {NA, TypicalOf(focus)}] :
            df_in = CoerceFrame(n, focus, k, v, rest)
    /\ df_out = Idle
    /\ year = 2022 /\ raw_df = Idle /\ norm_df = Idle /\ s_in = Idle /\ s_out = Idle
    /\ LaterIdle

\* One call coerce_types(df_in)
CoerceTypes ==
    /\ pc = "start"
    /\ df_out' = coerce_types(df_in)
    /\ df_in' = coerce_types(df_in).caller
    /\ pc' = "coerced"
    /\ UNCHANGED <<year, raw_df, norm_df, s_in, s_out, discVars, readVars, saveVars, unifyVars, buildVars, logVars, aggVars>>

NextCoerce == CoerceTypes

SpecCoerce == InitCoerce /\ [][NextCoerce]_vars

(***************************************************************************)
(* Column mapper: claims C1 and C2.                                        *)
(***************************************************************************)
CanonicalLabels == [i \in 1..Len(CANONICAL_COLS) |-> <<CANONICAL_COLS[i]>>]

AllNull(col) == \A r \in 1..Len(col.cells) : col.cells[r] = NA

\* Raw column i is mapped to the canonical name c by the year's table
MappedTo(i, c) ==
    LET h == Strip(raw_df[i].label, Whitespace)
    IN  /\ Len(h) = 1
        /\ h[1] \in MappingKeys(MappingOf(year))
        /\ MappingGet(MappingOf(year), h[1]) = c

\* C1: for every raw frame and each year mapping, the columns of the frame
\* normalize_columns returns are exactly the canonical columns, each once, in
\* canonical order.  (The claim counts 28 names; CANONICAL_COLS holds 29.)
C1_ExactlyCanonicalColumns ==
    pc = "normalized" => Labels(norm_df) = CanonicalLabels

\* C2: every column of the result is entirely null unless some raw column
\* whose stripped header is a key of the year's mapping produced it (so a raw
\* column whose header is no key is dropped), and for 2023 and 2024 the columns
\* UO and NATUREZA_DESPESA are null in every row.
C2_UnmappedDroppedLegacyNull ==
    pc = "normalized" =>
        /\ \A j \in 1..Len(norm_df) :
              \/ AllNull(norm_df[j])
              \/ \E i \in 1..Len(raw_df) :
                    /\ MappedTo(i, norm_df[j].label[1])
                    /\ norm_df[j].cells = raw_df[i].cells
        /\ year \in {2023, 2024} =>
              \A j \in 1..Len(norm_df) :
                  norm_df[j].label \in {<<"UO">>, <<"NATUREZA_DESPESA">>} => AllNull(norm_df[j])

(***************************************************************************)
(* Currency parser: claims C3 to C6.                                       *)
(***************************************************************************)
HasChar(t, c) == \E i \in 1..Len(t) : t[i] = c

WithoutChar(t, c) == SelectSeq(t, LAMBDA x : x # c)

CommaToPoint(t) == [i \in 1..Len(t) |-> IF t[i] = "," THEN "." ELSE t[i]]

\* The numeric value of a text, or NaN when the text is no numeral
ValueOf(t) == IF IsNumeral(t) THEN NumeralValue(t) ELSE NaN

ParsedObject == pc = "parsed" /\ s_in.dtype = "object"

Positions == 1..Len(s_in.values)

TextAt(i) == s_in.values[i]

\* C3: a value whose cleaned text holds both "." and "," is parsed with every
\* "." removed and "," read as the decimal point; "R$ 1.234,56" yields 1234.56.
C3_BothPointAndComma ==
    ParsedObject =>
        \A i \in Positions :
            (/\ TextAt(i) # NA
             /\ HasChar(CleanCurrencyText(TextAt(i)), ".")
             /\ HasChar(CleanCurrencyText(TextAt(i)), ","))
            => /\ s_out.dtype # "raised"
               /\ s_out.values[i] =
                    ValueOf(CommaToPoint(WithoutChar(CleanCurrencyText(TextAt(i)), ".")))

\* C4: " $ 8,100.00 " (comma for thousands, point for decimals) yields 8100.00.
C4_CommaThousands ==
    ParsedObject =>
        \A i \in Positions :
            TextAt(i) = <<" ","$"," ","8",",","1","0","0",".","0","0"," ">>
            => s_out.values[i] = <<0, 8100, 0>>

\* C5: a value whose cleaned text holds "," but no "." is parsed with "," read
\* as the decimal point ("600,00" yields 600.0); a value with no "," is parsed
\* as it stands, "." being the decimal point ("300.0" yields 300.0, "1500"
\* yields 1500.0).
C5_CommaOnlyOrNoComma ==
    ParsedObject =>
        /\ s_out.dtype # "raised"
        /\ \A i \in Positions :
            /\ (/\ TextAt(i) # NA
                /\ HasChar(CleanCurrencyText(TextAt(i)), ",")
                /\ ~HasChar(CleanCurrencyText(TextAt(i)), "."))
                 => s_out.values[i] = ValueOf(CommaToPoint(CleanCurrencyText(TextAt(i))))
            /\ (TextAt(i) # NA /\ ~HasChar(CleanCurrencyText(TextAt(i)), ","))
                 => s_out.values[i] = ValueOf(CleanCurrencyText(TextAt(i)))
            /\ TextAt(i) = <<"6","0","0",",","0","0">> => s_out.values[i] = <<0, 600, 0>>
            /\ TextAt(i) = <<"3","0","0",".","0">> => s_out.values[i] = <<0, 300, 0>>
            /\ TextAt(i) = <<"1","5","0","0">> => s_out.values[i] = <<0, 1500, 0>>

C5_Witness ==
    /\ ParsedObject
    /\ \E i, j \in Positions :
        /\ TextAt(i) = <<"R","$"," ","6","0","0",",","0","0">>
        /\ s_out.values[i] = <<0, 600, 0>>
        /\ TextAt(j) = <<"-","5">>
        /\ s_out.values[j] = <<1, 5, 0>>

\* A null, empty or blank value, or one holding a letter that is no part of a
\* currency symbol
NoAmount(v) ==
    \/ v = NA
    \/ Strip(v, Whitespace) = << >>
    \/ HasChar(v, "x")

\* C6: the parser never raises on a series of texts and nulls; the result has
\* the length of the input; a null, empty, blank or malformed value gives null
\* at its own position; and the result at a position is the result the value
\* alone would give, whatever the other positions hold.
C6_NeverRaisesSameLength ==
    ParsedObject =>
        /\ s_out.dtype # "raised"
        /\ Len(s_out.values) = Len(s_in.values)
        /\ \A i \in Positions :
            /\ NoAmount(TextAt(i)) => s_out.values[i] = NaN
            /\ s_out.values[i] =
                 parse_brazilian_currency_to_float(Series("object", <<TextAt(i)>>)).values[1]

C6_Witness ==
    /\ ParsedObject
    /\ Len(s_in.values) = 2
    /\ TextAt(1) = <<"x">>
    /\ TextAt(2) = <<"3","0","0",".","0">>
    /\ s_out.values = <<NaN, <<0, 300, 0>>>>


\* The number a numeric cell holds, written as a float; a null holds none
NumberOf(v) ==
    IF Len(v) = 1 THEN <<IF v[1] < 0 THEN 1 ELSE 0, IF v[1] < 0 THEN -v[1] ELSE v[1], 0>>
    ELSE v

ParsedNumeric == pc = "parsed" /\ is_numeric_dtype(s_in)

Coerced == pc = "coerced"

Rows == 1..Len(df_in["ANO_REFERENCIA"].values)

CellIn(c, i) == df_in[c].values[i]

CellOut(c, i) == df_out.df[c].values[i]

\* C7 as claimed: after coerce_types every paid amount that is not null is
\* non-negative, whatever the raw text.
C7_PaidAmountNonNegative ==
    Coerced =>
        \A i \in Rows : CellOut("VALOR_PAGO", i) = NaN \/ CellOut("VALOR_PAGO", i)[1] = 0

\* C7 as amended: a paid amount is negative only if the raw text holds a minus
\* sign, and a leading minus sign before a valid amount gives the negative
\* number: "-5" gives -5.0 and "R$ -600,00" gives -600.0.
C7_NegativeOnlyWithMinus ==
    Coerced =>
        /\ ~df_out.raised
        /\ \A i \in Rows :
            /\ (CellOut("VALOR_PAGO", i) # NaN /\ CellOut("VALOR_PAGO", i)[1] = 1)
                 => (CellIn("VALOR_PAGO", i) # NA /\ HasChar(CellIn("VALOR_PAGO", i), "-"))
            /\ CellIn("VALOR_PAGO", i) = <<"-","5">>
                 => CellOut("VALOR_PAGO", i) = <<1, 5, 0>>
            /\ CellIn("VALOR_PAGO", i) = <<"R","$"," ","-","6","0","0",",","0","0">>
                 => CellOut("VALOR_PAGO", i) = <<1, 600, 0>>

C7_Witness ==
    /\ Coerced
    /\ \E i \in Rows :
        /\ CellIn("VALOR_PAGO", i) = <<"R","$"," ","-","6","0","0",",","0","0">>
        /\ CellOut("VALOR_PAGO", i) = <<1, 600, 0>>

\* Four digits start at position p of t
FourDigitsAt(t, p) ==
    /\ p + 3 <= Len(t)
    /\ t[p] \in Digits /\ t[p + 1] \in Digits /\ t[p + 2] \in Digits /\ t[p + 3] \in Digits

\* A run of exactly four digits starts at position p of t
ExactRunAt(t, p) ==
    /\ FourDigitsAt(t, p)
    /\ (p = 1 \/ t[p - 1] \notin Digits)
    /\ (p + 4 > Len(t) \/ t[p + 4] \notin Digits)

FourDigitValue(t, p) ==
    1000 * DigitVal(t[p]) + 100 * DigitVal(t[p + 1]) + 10 * DigitVal(t[p + 2]) + DigitVal(t[p + 3])

\* The year of the first run of exactly four digits of t, or null
YearOfExactRun(t) ==
    IF t = NA \/ ~\E p \in 1..Len(t) : ExactRunAt(t, p) THEN NaN
    ELSE <<FourDigitValue(t, CHOOSE p \in 1..Len(t) :
                                 ExactRunAt(t, p) /\ \A q \in 1..(p - 1) : ~ExactRunAt(t, q))>>

\* The year of the first four consecutive digits of t, or null
YearOfFirstFour(t) ==
    IF t = NA \/ ~\E p \in 1..Len(t) : FourDigitsAt(t, p) THEN NaN
    ELSE <<FourDigitValue(t, CHOOSE p \in 1..Len(t) :
                                 FourDigitsAt(t, p) /\ \A q \in 1..(p - 1) : ~FourDigitsAt(t, q))>>

\* C8 as claimed: the reference year is the value of the first run of exactly
\* four digits of the raw text (a longer run is no match), null without one.
C8_FirstRunOfExactlyFour ==
    Coerced =>
        \A i \in Rows :
            CellOut("ANO_REFERENCIA", i) = YearOfExactRun(CellIn("ANO_REFERENCIA", i))

\* C8 as amended: the reference year is the value of the first four consecutive
\* digits of the raw text, which may be the first four digits of a longer run
\* ("12345" gives 1234), null when the text has no four consecutive digits;
\* "Ano 2023 (parcial)" gives 2023 and "sem ano" gives null.
C8_FirstFourDigits ==
    Coerced =>
        /\ ~df_out.raised
        /\ \A i \in Rows :
            /\ CellOut("ANO_REFERENCIA", i) = YearOfFirstFour(CellIn("ANO_REFERENCIA", i))
            /\ CellIn("ANO_REFERENCIA", i) =
                 <<"A","n","o"," ","2","0","2","3"," ","(","p","a","r","c","i","a","l",")">>
                 => CellOut("ANO_REFERENCIA", i) = <<2023>>
            /\ CellIn("ANO_REFERENCIA", i) = <<"s","e","m"," ","a","n","o">>
                 => CellOut("ANO_REFERENCIA", i) = NaN

C8_Witness ==
    /\ Coerced
    /\ \E i \in Rows :
        /\ CellIn("ANO_REFERENCIA", i) = <<"1","2","3","4","5">>
        /\ CellOut("ANO_REFERENCIA", i) = <<1234>>

\* C9 as claimed: every reference year is null or an integer of 1000..9999.
C9_YearIsFourDigitInteger ==
    Coerced =>
        \A i \in Rows :
            \/ CellOut("ANO_REFERENCIA", i) = NaN
            \/ CellOut("ANO_REFERENCIA", i)[1] \in 1000..9999

\* C9 as amended: every reference year is null or an integer of 0..9999 (four
\* digits with leading zeros give a smaller number: "0042" gives 42).
C9_YearAtMostFourDigits ==
    Coerced =>
        /\ ~df_out.raised
        /\ \A i \in Rows :
            \/ CellOut("ANO_REFERENCIA", i) = NaN
            \/ CellOut("ANO_REFERENCIA", i)[1] \in 0..9999

C9_Witness ==
    /\ Coerced
    /\ \E i \in Rows :
        /\ CellIn("ANO_REFERENCIA", i) = <<"0","0","4","2">>
        /\ CellOut("ANO_REFERENCIA", i) = <<42>>

LowerSet == {Lower[k] : k \in 1..26}

IsLetter(ch) == ch \in AZ \/ ch \in LowerSet

LettersBefore(t, p) == Cardinality({q \in 1..(p - 1) : IsLetter(t[q])})

\* The position of the j-th letter of t
LetterPos(t, j) == CHOOSE p \in 1..Len(t) : IsLetter(t[p]) /\ LettersBefore(t, p) = j - 1

\* C10: every non-null origin and destination state code holds only the
\* letters A-Z, at most 3 of them: the first 3 letters of the raw value,
\* upper-cased, every other character deleted; "sp " gives "SP" and "s.p.1"
\* gives "SP".
C10_StateCodeUpperAlpha3 ==
    Coerced =>
        /\ ~df_out.raised
        /\ \A c \in {"SIGLA_UF_ORIGEM", "SIGLA_UF_DESTINO"} : \A i \in Rows :
            IF CellIn(c, i) = NA THEN CellOut(c, i) = NA
            ELSE LET raw == CellIn(c, i)
                     out == CellOut(c, i)
                     letters == LettersBefore(raw, Len(raw) + 1)
                 IN  /\ out # NA
                     /\ Len(out) <= 3
                     /\ Len(out) = IF letters < 3 THEN letters ELSE 3
                     /\ \A j \in 1..Len(out) :
                          out[j] \in AZ /\ out[j] = UpperChar(raw[LetterPos(raw, j)])
                     /\ raw = <<"s","p"," ">> => out = <<"S","P">>
                     /\ raw = <<"s",".","p",".","1">> => out = <<"S","P">>

C10_Witness ==
    /\ Coerced
    /\ \E i \in Rows :
        /\ CellIn("SIGLA_UF_ORIGEM", i) = <<"s",".","p",".","1">>
        /\ CellOut("SIGLA_UF_ORIGEM", i) = <<"S","P">>
    /\ \E i \in Rows :
        /\ CellIn("SIGLA_UF_DESTINO", i) = <<"S","P">>
        /\ CellOut("SIGLA_UF_DESTINO", i) = <<"S","P">>

(***************************************************************************)
(* Type coercer: claims C15 to C17.                                        *)
(***************************************************************************)
\* A text that is no date: not dd/mm/yyyy with an optional clock, or a day
\* the calendar does not have
NoDate(v) ==
    \/ v = NA
    \/ ~IsDateText(Strip(v, Whitespace))
    \/ v \in { <<"3","1","/","0","2","/","2","0","2","2">>,
               <<"3","2","/","0","1","/","2","0","2","2">> }

\* A text with no four digits in a row
NoYear(v) == v = NA \/ ~\E p \in 1..Len(v) : FourDigitsAt(v, p)

\* The frame coerce_types returns for the one-row frame that is row i of df_in
AloneRow(i) == coerce_types([c \in DOMAIN df_in |-> Series(df_in[c].dtype, <<CellIn(c, i)>>)]).df

\* C15: coerce_types does not raise on unparseable cell values; every column
\* of the result has the row count of the input; row i of the result is what
\* row i of the input alone gives (same rows, same order); an unparseable
\* date, paid amount or reference year is null in its own cell.
C15_NeverRaisesRowsKept ==
    Coerced =>
        /\ ~df_out.raised
        /\ \A c \in DOMAIN df_in : Len(df_out.df[c].values) = Len(df_in[c].values)
        /\ \A i \in Rows :
            /\ \A c \in DOMAIN df_in : CellOut(c, i) = AloneRow(i)[c].values[1]
            /\ \A c \in {"DATA_INICIO_PROCESSO", "DATA_TERMINO_PROCESSO"} :
                 NoDate(CellIn(c, i)) <=> CellOut(c, i) = NaT
            /\ NoAmount(CellIn("VALOR_PAGO", i)) => CellOut("VALOR_PAGO", i) = NaN
            /\ NoYear(CellIn("ANO_REFERENCIA", i)) <=> CellOut("ANO_REFERENCIA", i) = NaN

C15_Witness ==
    /\ Coerced
    /\ Len(df_in["VALOR_PAGO"].values) = 2
    /\ CellIn("VALOR_PAGO", 1) = <<"R","$"," ","x">>
    /\ CellOut("VALOR_PAGO", 1) = NaN
    /\ CellOut("VALOR_PAGO", 2) = <<0, 600, 0>>
    /\ CellOut("PROCESSO", 1) = <<"A","B","C">>
    /\ CellOut("ANO_REFERENCIA", 1) = <<2023>>

\* C16: a call of coerce_types leaves the caller's frame as it was: every
\* column keeps its type and its values.
C16_InputFrameUnchanged ==
    [][pc = "start" /\ pc' = "coerced" =>
         /\ DOMAIN df_in' = DOMAIN df_in
         /\ \A c \in DOMAIN df_in :
              /\ df_in'[c].dtype = df_in[c].dtype
              /\ df_in'[c].values = df_in[c].values]_vars

C16_Witness ==
    /\ Coerced
    /\ ~df_out.raised
    /\ \A c \in DOMAIN df_in : df_in[c].dtype = "object" /\ df_out.df[c].dtype # "object"
    /\ CellIn("SIGLA_UF_DESTINO", 1) = <<"s","p"," ">>
    /\ CellOut("SIGLA_UF_DESTINO", 1) = <<"S","P">>

\* The columns of the result that hold text
StringCols == {c \in DOMAIN df_out.df : df_out.df[c].dtype = "string"}

IsStripped(t) == t = << >> \/ (t[1] \notin Whitespace /\ t[Len(t)] \notin Whitespace)

\* C17: in the result every non-null value of every text column has no blank
\* at either end; in TITULO_PROJETO, PALAVRA_CHAVE and BENEFICIARIO it is the
\* stripped raw value with its letter case, in every other text column it has
\* no lower-case letter, and outside the state-code columns it is the
\* stripped raw value upper-cased.
C17_StringsStrippedUpper ==
    Coerced =>
        /\ StringCols = CanonicalSet \ {"ANO_REFERENCIA", "VALOR_PAGO",
                                         "DATA_INICIO_PROCESSO", "DATA_TERMINO_PROCESSO"}
        /\ \A c \in StringCols : \A i \in Rows :
            IF CellIn(c, i) = NA THEN CellOut(c, i) = NA
            ELSE /\ CellOut(c, i) # NA
                 /\ IsStripped(CellOut(c, i))
                 /\ IF c \in {"TITULO_PROJETO", "PALAVRA_CHAVE", "BENEFICIARIO"}
                    THEN CellOut(c, i) = Strip(CellIn(c, i), Whitespace)
                    ELSE /\ \A j \in 1..Len(CellOut(c, i)) : CellOut(c, i)[j] \notin LowerSet
                         /\ ~IsUFCol(c) => CellOut(c, i) = Upper(Strip(CellIn(c, i), Whitespace))

C17_Witness ==
    /\ Coerced
    /\ \E i \in Rows :
        /\ CellIn("TITULO_PROJETO", i) = <<" ","a","b","c"," ">>
        /\ CellOut("TITULO_PROJETO", i) = <<"a","b","c">>
        /\ CellIn("MODALIDADE", i) = <<"A","b","c">>
        /\ CellOut("MODALIDADE", i) = <<"A","B","C">>

(***************************************************************************)
(* Section 1 of utils.py: discover_raw_files.  The raw directory is the    *)
(* sequence of its entries in the order os.listdir gives them; an entry is *)
(* [name |-> a text, isfile |-> whether it is a regular file].             *)
(***************************************************************************)
MaxEntries == 3     \* entries of the raw directory

LowerChar(c) ==
    IF \E k \in 1..26 : UpperAZ[k] = c
    THEN Lower[CHOOSE k \in 1..26 : UpperAZ[k] = c]
    ELSE c

\* str.lower()
ToLower(t) == [i \in 1..Len(t) |-> LowerChar(t[i])]

\* A pattern "<literal><c>*": the literal text, then c zero or more times
patt_2022 == [lit |-> <<"R","e","l","a","t","o","r","i">>, star |-> "o"]
patt_2023 == [lit |-> <<"D","a","d","o","s","-","d","e","-","P","a","g","a","m","e","n","t","o","-","2","0","2","3","-","P","D">>, star |-> "A"]
patt_2024 == [lit |-> <<"2","0","2","5","0","2","0">>, star |-> "4"]

\* re.compile(p, re.I).search(t): somewhere in t the literal, letter case
\* ignored, then the starred character any number of times (none will do)
RegexSearchI(p, t) ==
    \E i \in 1..(Len(t) + 1) :
        /\ i + Len(p.lit) - 1 <= Len(t)
        /\ ToLower(SubSeq(t, i, i + Len(p.lit) - 1)) = ToLower(p.lit)
        /\ \E k \in 0..(Len(t) - (i + Len(p.lit) - 1)) :
             \A j \in 1..k : LowerChar(t[i + Len(p.lit) - 1 + j]) = LowerChar(p.star)

YearKeys == <<"y2022", "y2023", "y2024">>

PatternOf(key) ==
    CASE key = "y2022" -> patt_2022
      [] key = "y2023" -> patt_2023
      [] key = "y2024" -> patt_2024

\* Mutant of KeysOf: three separate ifs, a file counts for every pattern it matches
KeysOf_EveryMatch(f) ==
    {YearKeys[k] : k \in {k \in 1..3 : RegexSearchI(PatternOf(YearKeys[k]), ToLower(f))}}

\* Lines 171-177: the if/elif chain gives a file to the first pattern it matches
KeysOf(f) ==
    LET low == ToLower(f)
    IN  IF RegexSearchI(patt_2022, low) THEN {"y2022"}
        ELSE IF RegexSearchI(patt_2023, low) THEN {"y2023"}
        ELSE IF RegexSearchI(patt_2024, low) THEN {"y2024"}
        ELSE {}

\* os.path.join(data_raw, f)
FullPath(f) == <<"data/raw/">> \o f

\* Lines 166-177: the dict after the loop over files, a later file replacing
\* an earlier one of the same year
RECURSIVE ScanFiles(_, _)
ScanFiles(entries, acc) ==
    IF entries = << >> THEN acc
    ELSE LET e == Head(entries)
             hit == IF e.isfile THEN KeysOf(e.name) ELSE {}
         IN  ScanFiles(Tail(entries),
                       [k \in DOMAIN acc \cup hit |->
                           IF k \in hit THEN FullPath(e.name) ELSE acc[k]])

EmptyDict == [k \in {} |-> << >>]

\* Mutant of discover_raw_files: a year without a file is not reported
discover_raw_files_NeverRaises(entries) ==
    [raised |-> FALSE, missing |-> << >>, paths |-> ScanFiles(entries, EmptyDict)]

\* The call: [raised |-> FALSE, paths |-> the dict returned], or
\* [raised |-> TRUE, missing |-> the sorted list in the FileNotFoundError]
discover_raw_files(entries) ==
    LET res == ScanFiles(entries, EmptyDict)
        missing == SelectSeq(YearKeys, LAMBDA k : k \notin DOMAIN res)
    IN  IF missing # << >>
        THEN [raised |-> TRUE, missing |-> missing, paths |-> EmptyDict]
        ELSE [raised |-> FALSE, missing |-> << >>, paths |-> res]

DirEntries == {
    [name |-> <<"R","e","l","a","t","o","r","i","o","_","2","0","2","2",".","c","s","v">>,
     isfile |-> TRUE],
    [name |-> <<"R","E","L","A","T","O","R","I","O",".","C","S","V">>,
     isfile |-> TRUE],
    [name |-> <<"r","e","l","a","t","o","r","i",".","t","x","t">>,
     isfile |-> TRUE],
    [name |-> <<"D","a","d","o","s","-","d","e","-","P","a","g","a","m","e","n","t","o","-","2","0","2","3","-","P","D","A",".","c","s","v">>,
     isfile |-> TRUE],
    [name |-> <<"d","a","d","o","s","-","d","e","-","p","a","g","a","m","e","n","t","o","-","2","0","2","3","-","p","d",".","c","s","v">>,
     isfile |-> TRUE],
    [name |-> <<"2","0","2","5","0","2","0","4","_","p","a","g","a","m","e","n","t","o","s",".","c","s","v">>,
     isfile |-> TRUE],
    [name |-> <<"R","e","l","a","t","o","r","i","o","-","2","0","2","5","0","2","0","4",".","c","s","v">>,
     isfile |-> TRUE],
    [name |-> <<"n","o","t","a","s",".","t","x","t">>,
     isfile |-> TRUE],
    [name |-> <<"R","e","l","a","t","o","r","i","o">>,
     isfile |-> FALSE] }

InitDiscover ==
    /\ pc = "start"
    /\ \E n \in 0..MaxEntries : \E l \in [1..n -> DirEntries] :
            Distinct(l) /\ listing = l
    /\ found = Idle
    /\ EarlyIdle /\ ReadIdle /\ SaveIdle /\ UnifyIdle /\ BuildIdle /\ LogIdle /\ AggIdle

\* One call discover_raw_files(data_raw)
DiscoverRawFiles ==
    /\ pc = "start"
    /\ found' = discover_raw_files(listing)
    /\ pc' = "discovered"
    /\ UNCHANGED <<listing, earlyVars, readVars, saveVars, unifyVars, buildVars, logVars, aggVars>>

NextDiscover == DiscoverRawFiles

SpecDiscover == InitDiscover /\ [][NextDiscover]_vars

(***************************************************************************)
(* File discovery: claim C18.                                              *)
(***************************************************************************)
Discovered == pc = "discovered"

FilesOf == {listing[i].name : i \in {i \in 1..Len(listing) : listing[i].isfile}}

\* Some file of the directory matches the pattern of the year
Matched(key) == \E f \in FilesOf : RegexSearchI(PatternOf(key), ToLower(f))

\* Some file of the directory matches the pattern of the year and of no
\* earlier year
Assigned(key) ==
    \E f \in FilesOf :
        /\ RegexSearchI(PatternOf(key), ToLower(f))
        /\ \A k \in 1..3 : \A j \in 1..3 :
             (YearKeys[k] = key /\ j < k) => ~RegexSearchI(PatternOf(YearKeys[j]), ToLower(f))

\* C18 as claimed: the call fails exactly when some year's pattern is matched
\* by no file, and the error lists exactly those years; otherwise it returns
\* a path for each of the three years.
C18_MissingAreUnmatched ==
    Discovered =>
        /\ found.raised <=> \E k \in 1..3 : ~Matched(YearKeys[k])
        /\ found.raised => found.missing = SelectSeq(YearKeys, LAMBDA key : ~Matched(key))
        /\ ~found.raised => DOMAIN found.paths = {"y2022", "y2023", "y2024"}

\* C18 as amended: a file counts for the first of the patterns 2022, 2023,
\* 2024 it matches and for no other; the call fails exactly when some year
\* has no such file, the error lists exactly those years in ascending order,
\* and otherwise each of the three years gets the path of a file that counts
\* for it.
C18_MissingAreUnassigned ==
    Discovered =>
        /\ found.raised <=> \E k \in 1..3 : ~Assigned(YearKeys[k])
        /\ found.raised => found.missing = SelectSeq(YearKeys, LAMBDA key : ~Assigned(key))
        /\ ~found.raised =>
             /\ DOMAIN found.paths = {"y2022", "y2023", "y2024"}
             /\ \A key \in DOMAIN found.paths :
                  \E f \in FilesOf :
                      /\ found.paths[key] = FullPath(f)
                      /\ RegexSearchI(PatternOf(key), ToLower(f))

C18_Witness ==
    /\ Discovered
    /\ found.raised
    /\ found.missing = <<"y2024">>
    /\ Matched("y2024")
    /\ Len(listing) = 2

(***************************************************************************)
(* Section 2 of utils.py: _read_csv_flexible.  A CSV file is what          *)
(* pd.read_csv does with it under each encoding: [ok |-> TRUE, val |-> the *)
(* frame read] or [ok |-> FALSE, val |-> the text of the exception].       *)
(***************************************************************************)
\* Mutant of encodings: Latin-1 is tried first
encodings_Latin1First == <<"latin-1", "utf-8", "utf-8-sig", "cp1252">>

\* Line 199
encodings == <<"utf-8", "utf-8-sig", "latin-1", "cp1252">>

NoFrame == << >>

\* Lines 201-214: the loop from the encodings left to try; tried lists the
\* encodings read_csv was called with, error is the list errs that the
\* RuntimeError carries
RECURSIVE ReadLoop(_, _, _, _)
ReadLoop(file, encs, tried, errs) ==
    IF encs = << >>
    THEN [raised |-> TRUE, tried |-> tried, error |-> errs, df |-> NoFrame]
    ELSE LET enc == Head(encs)
         IN  IF file[enc].ok
             THEN [raised |-> FALSE, tried |-> Append(tried, enc), error |-> << >>,
                   df |-> file[enc].val]
             ELSE ReadLoop(file, Tail(encs), Append(tried, enc),
                           Append(errs, <<enc, file[enc].val>>))

read_csv_flexible(file) == ReadLoop(file, encodings, << >>, << >>)

EncodingNames == {"utf-8", "utf-8-sig", "latin-1", "cp1252"}

ReadOutcomes == {
    [ok |-> TRUE,  val |-> "frame A"],
    [ok |-> TRUE,  val |-> "frame B"],
    [ok |-> FALSE, val |-> "UnicodeDecodeError"],
    [ok |-> FALSE, val |-> "ParserError"] }

InitRead ==
    /\ pc = "start"
    /\ csv_file \in [EncodingNames -> ReadOutcomes]
    /\ read_out = Idle
    /\ EarlyIdle /\ DiscIdle /\ SaveIdle /\ UnifyIdle /\ BuildIdle /\ LogIdle /\ AggIdle

\* One call _read_csv_flexible(path, header_row, sep_override)
ReadCsvFlexible ==
    /\ pc = "start"
    /\ read_out' = read_csv_flexible(csv_file)
    /\ pc' = "read"
    /\ UNCHANGED <<csv_file, earlyVars, discVars, saveVars, unifyVars, buildVars, logVars, aggVars>>

NextRead == ReadCsvFlexible

SpecRead == InitRead /\ [][NextRead]_vars

(***************************************************************************)
(* CSV reader: claim C19.                                                  *)
(***************************************************************************)
ClaimedOrder == <<"utf-8", "utf-8-sig", "latin-1", "cp1252">>

\* The encodings before position n all fail on the file
AllFailBefore(n) == \A j \in 1..(n - 1) : ~csv_file[ClaimedOrder[j]].ok

\* C19: the encodings are tried in the order UTF-8, UTF-8 with signature,
\* Latin-1, Windows-1252; the call returns the frame of the first one that
\* succeeds and tries none after it; it raises only when all four fail, and
\* the error then carries the four encodings in order, each with its failure.
C19_FirstEncodingThatReads ==
    pc = "read" =>
        /\ \E n \in 1..4 :
            /\ read_out.tried = SubSeq(ClaimedOrder, 1, n)
            /\ AllFailBefore(n)
            /\ (n < 4 => csv_file[ClaimedOrder[n]].ok)
            /\ ~read_out.raised => /\ csv_file[ClaimedOrder[n]].ok
                                   /\ read_out.df = csv_file[ClaimedOrder[n]].val
        /\ read_out.raised <=> \A e \in EncodingNames : ~csv_file[e].ok
        /\ read_out.raised =>
             read_out.error = [j \in 1..4 |-> <<ClaimedOrder[j], csv_file[ClaimedOrder[j]].val>>]

C19_Witness ==
    /\ pc = "read"
    /\ read_out.tried = <<"utf-8", "utf-8-sig", "latin-1">>
    /\ ~read_out.raised
    /\ read_out.df = "frame A"
    /\ csv_file["cp1252"] = [ok |-> TRUE, val |-> "frame B"]
    /\ csv_file["utf-8"].val # csv_file["utf-8-sig"].val

(***************************************************************************)
(* Frames with ordered columns, and the files written from them.  A frame  *)
(* is [columns |-> the column names in order, data |-> a function from     *)
(* those names to series].  A Parquet file keeps, per column, the storage  *)
(* type, the pandas type recorded in the file's metadata and the values,   *)
(* each [null |-> TRUE] or [null |-> FALSE, v |-> the value]; reading      *)
(* restores the pandas type and the null of that type.  index=False: no    *)
(* index is kept.                                                          *)
(***************************************************************************)
Frame(columns, data) == [columns |-> columns, data |-> data]

ColumnSet(df) == {df.columns[i] : i \in 1..Len(df.columns)}

NRowsOf(df) == IF df.columns = << >> THEN 0 ELSE Len(df.data[df.columns[1]].values)

\* df[cols]
SelectFrame(df, cols) == Frame(cols, [c \in {cols[i] : i \in 1..Len(cols)} |-> df.data[c]])

PqNull == [null |-> TRUE, v |-> << >>]

PqValue(v) == [null |-> FALSE, v |-> v]

\* The null of a pandas type
NullOf(dtype) == IF dtype \in {"object", "string"} THEN NA ELSE NaN

IsNullValue(dtype, v) == v = NullOf(dtype)

\* The Arrow type pyarrow stores a column as
StorageType(s) ==
    CASE s.dtype = "datetime64" -> "timestamp[ns]"
      [] s.dtype = "float64" -> "double"
      [] s.dtype = "Int64" -> "int64"
      [] s.dtype = "string" -> "string"
      [] OTHER -> IF \A i \in 1..Len(s.values) : IsNullValue(s.dtype, s.values[i])
                  THEN "null" ELSE "string"

\* df.to_parquet(p, index=False)
to_parquet(df) ==
    [format  |-> "parquet",
     columns |-> df.columns,
     fields  |-> [c \in ColumnSet(df) |->
                    [storage |-> StorageType(df.data[c]),
                     pandas  |-> df.data[c].dtype,
                     values  |-> [i \in 1..Len(df.data[c].values) |->
                                    IF IsNullValue(df.data[c].dtype, df.data[c].values[i])
                                    THEN PqNull
                                    ELSE PqValue(df.data[c].values[i])]]]]

\* Mutant of RestoredNull: a null of a text column is read as the empty text
RestoredNull_EmptyText(dtype) == IF dtype \in {"object", "string"} THEN << >> ELSE NaN

\* The value pd.read_parquet gives for a null of a column
RestoredNull(dtype) == NullOf(dtype)

\* The pandas type pd.read_parquet gives a column, from the file's metadata
RestoredDtype(field) == field.pandas

\* pd.read_parquet(p)
read_parquet(file) ==
    Frame(file.columns,
          [c \in DOMAIN file.fields |->
              LET dtype == RestoredDtype(file.fields[c])
              IN  Series(dtype, [i \in 1..Len(file.fields[c].values) |->
                                   IF file.fields[c].values[i].null THEN RestoredNull(dtype)
                                   ELSE file.fields[c].values[i].v])])

\* df.to_csv(p, index=False, encoding="utf-8"): a header line, then the cells
\* as text, a null as the empty text; a text file keeps no types
to_csv(df) ==
    [format |-> "csv",
     header |-> df.columns,
     body   |-> [c \in ColumnSet(df) |->
                    [i \in 1..Len(df.data[c].values) |->
                        IF IsNullValue(df.data[c].dtype, df.data[c].values[i]) THEN << >>
                        ELSE df.data[c].values[i]]]]

(***************************************************************************)
(* Section 5 of utils.py: save_preprocessed.  The directory                *)
(* data/preprocessed is a function from file names to contents.            *)
(***************************************************************************)
out_parquet == "cnpq_pagamentos_2022_2024.parquet"
out_csv == "cnpq_pagamentos_2022_2024.csv"

\* Lines 652-655
ReferenceYearFirst(df) ==
    IF "ANO_REFERENCIA" \in ColumnSet(df)
    THEN SelectFrame(df, <<"ANO_REFERENCIA">> \o SelectSeq(df.columns, LAMBDA c : c # "ANO_REFERENCIA"))
    ELSE df

\* os.getenv("WRITE_CSV", "0"); the environment is the variable's value or Unset
Unset == "<unset>"
GetEnvWriteCsv(env) == IF env = Unset THEN "0" ELSE env

\* Mutant of should_write_csv: the environment toggle also overrides write_csv=False
should_write_csv_EnvWins(write_csv, env) ==
    write_csv = "True" \/ GetEnvWriteCsv(env) = "1"

\* Lines 660-663; write_csv is "True", "False" or "None"
should_write_csv(write_csv, env) ==
    write_csv = "True" \/ (write_csv = "None" /\ GetEnvWriteCsv(env) = "1")

\* Writing a file: the directory with the file's content replaced
WriteFile(disk, name, content) ==
    [f \in DOMAIN disk \cup {name} |-> IF f = name THEN content ELSE disk[f]]

\* One call: the directory after it and the dict returned
save_preprocessed(df, write_csv, env, disk) ==
    LET ordered == ReferenceYearFirst(df)
        disk1 == WriteFile(disk, out_parquet, to_parquet(ordered))
        csv == should_write_csv(write_csv, env)
    IN  [disk |-> IF csv THEN WriteFile(disk1, out_csv, to_csv(ordered)) ELSE disk1,
         ret  |-> [parquet |-> out_parquet, csv |-> IF csv THEN out_csv ELSE ""]]

(***************************************************************************)
(* Frames given to save_preprocessed: one row, the reference year at any   *)
(* position among up to MaxSaveCols other columns.                         *)
(***************************************************************************)
MaxSaveCols == 3    \* columns of the frame besides ANO_REFERENCIA

SaveColumns == {"PROCESSO", "VALOR_PAGO", "UO", "DATA_INICIO_PROCESSO"}

SaveSeries(c) ==
    CASE c = "ANO_REFERENCIA" -> Series("Int64", << <<2023>> >>)
      [] c = "PROCESSO" -> Series("string", << <<"A","1">> >>)
      [] c = "VALOR_PAGO" -> Series("float64", << NaN >>)
      [] c = "UO" -> Series("object", << NA >>)
      [] c = "DATA_INICIO_PROCESSO" -> Series("datetime64", << <<2022, 12, 31, 0, 0, 0>> >>)

SaveFrame(cols) == Frame(cols, [c \in {cols[i] : i \in 1..Len(cols)} |-> SaveSeries(c)])

EmptyDisk == [f \in {} |-> << >>]

\* The files an earlier run left, written with contents of another day
OldDisk ==
    [f \in {out_parquet, out_csv} |->
        IF f = out_parquet THEN to_parquet(SaveFrame(<<"ANO_REFERENCIA">>))
        ELSE to_csv(SaveFrame(<<"ANO_REFERENCIA">>))]

InitSave ==
    /\ pc = "start"
    /\ \E n \in 1..(MaxSaveCols + 1) : \E cols \in [1..n -> SaveColumns \cup {"ANO_REFERENCIA"}] :
         /\ Distinct(cols)
         /\ \E i \in 1..n : cols[i] = "ANO_REFERENCIA"
         /\ \E w \in {"True", "False", "None"} : \E e \in {Unset, "0", "1", "true"} :
              save_in = [df |-> SaveFrame(cols), write_csv |-> w, env |-> e]
    /\ \E d \in {EmptyDisk, OldDisk} : files = [disk |-> d, ret |-> << >>]
    /\ EarlyIdle /\ DiscIdle /\ ReadIdle /\ UnifyIdle /\ BuildIdle /\ LogIdle /\ AggIdle

\* One call save_preprocessed(df, paths, write_csv)
SavePreprocessed ==
    /\ pc = "start"
    /\ files' = save_preprocessed(save_in.df, save_in.write_csv, save_in.env, files.disk)
    /\ pc' = "saved"
    /\ UNCHANGED <<save_in, earlyVars, discVars, readVars, unifyVars, buildVars, logVars, aggVars>>

NextSave == SavePreprocessed

SpecSave == InitSave /\ [][NextSave]_vars

(***************************************************************************)
(* Saving: claim C20.                                                      *)
(***************************************************************************)
\* The column names of a written file
FileColumns(content) == IF content.format = "parquet" THEN content.columns ELSE content.header

\* The written file holds the frame's columns, the reference year first and
\* the others in the frame's order
YearFirstOthersInOrder(content, df) ==
    /\ FileColumns(content)[1] = "ANO_REFERENCIA"
    /\ Tail(FileColumns(content)) = SelectSeq(df.columns, LAMBDA c : c # "ANO_REFERENCIA")

\* The flag is true, or it is unset and WRITE_CSV is "1"
CsvRequested == 
    \/ save_in.write_csv = "True"
    \/ (save_in.write_csv = "None" /\ save_in.env = "1")

key_cols == <<"ANO_REFERENCIA", "PROCESSO", "VALOR_PAGO">>

\* Line 629
sort_cols == <<"ANO_REFERENCIA", "PROCESSO">>

\* The type of a column of pd.concat: the common type, else object
ConcatDtype(a, b) == IF a = b THEN a ELSE "object"

\* pd.concat([a, b, c], axis=0, ignore_index=True) of frames with the same columns
Concat(a, b, c) ==
    Frame(a.columns,
          [col \in ColumnSet(a) |->
              Series(ConcatDtype(ConcatDtype(a.data[col].dtype, b.data[col].dtype),
                                 c.data[col].dtype),
                     a.data[col].values \o b.data[col].values \o c.data[col].values)])

\* Series.isna() at row i of a column
IsNaAt(df, col, i) == IsNullValue(df.data[col].dtype, df.data[col].values[i])

\* The rows of df at the positions idx, in that order (reset_index(drop=True))
TakeRows(df, idx) ==
    Frame(df.columns,
          [col \in ColumnSet(df) |->
              Series(df.data[col].dtype, [k \in 1..Len(idx) |-> df.data[col].values[idx[k]]])])

\* Mutant of DropHow: a row is dropped when any key column is null
DropHow_Any == "any"

\* Line 625: how="all"
DropHow == "all"

\* df.dropna(axis=0, how=DropHow, subset=cols): whether row i goes
Dropped(df, cols, i) ==
    IF DropHow = "all"
    THEN \A k \in 1..Len(cols) : IsNaAt(df, cols[k], i)
    ELSE \E k \in 1..Len(cols) : IsNaAt(df, cols[k], i)

DropNa(df, cols) ==
    TakeRows(df, SelectSeq([i \in 1..NRowsOf(df) |-> i], LAMBDA i : ~Dropped(df, cols, i)))

\* The characters of the model's texts in code-point order
Ascii ==
    <<" ", "-", ".", "/", "0", "1", "2", "3", "4", "5", "6", "7", "8", "9">>
    \o UpperAZ \o Lower

Ord(ch) == CHOOSE k \in 1..Len(Ascii) : Ascii[k] = ch

\* a < b for two texts, as Python compares str
RECURSIVE TextLess(_, _)
TextLess(a, b) ==
    IF b = << >> THEN FALSE
    ELSE IF a = << >> THEN TRUE
    ELSE IF Head(a) # Head(b) THEN Ord(Head(a)) < Ord(Head(b))
    ELSE TextLess(Tail(a), Tail(b))

\* a < b for two non-null values of a column
ValueLess(dtype, a, b) ==
    IF dtype \in {"string", "object"} THEN TextLess(a, b) ELSE a[1] < b[1]

\* Mutant of NaPosition: nulls sort first
NaPosition_First == "first"

\* Line 630: na_position="last"
NaPosition == "last"

\* Whether row i sorts strictly before row j on one column
ColumnBefore(df, col, i, j) ==
    LET ni == IsNaAt(df, col, i)
        nj == IsNaAt(df, col, j)
    IN  IF ni \/ nj
        THEN IF NaPosition = "last" THEN ~ni /\ nj ELSE ni /\ ~nj
        ELSE ValueLess(df.data[col].dtype, df.data[col].values[i], df.data[col].values[j])

\* Whether row i sorts strictly before row j on the columns by, the first
\* column deciding unless the rows agree on it
RECURSIVE RowBefore(_, _, _, _)
RowBefore(df, by, i, j) ==
    IF by = << >> THEN FALSE
    ELSE IF ColumnBefore(df, Head(by), i, j) THEN TRUE
    ELSE IF ColumnBefore(df, Head(by), j, i) THEN FALSE
    ELSE RowBefore(df, Tail(by), i, j)

\* A stable sort of the row positions: each row in turn goes behind every row
\* already placed that it does not sort strictly before
RECURSIVE StableOrder(_, _, _, _)
StableOrder(df, by, placed, i) ==
    IF i > NRowsOf(df) THEN placed
    ELSE LET ahead == Cardinality({k \in 1..Len(placed) :
                                     \A m \in 1..k : ~RowBefore(df, by, i, placed[m])})
         IN  StableOrder(df, by,
                         SubSeq(placed, 1, ahead) \o <<i>> \o SubSeq(placed, ahead + 1, Len(placed)),
                         i + 1)

\* df.sort_values(by=by, na_position=NaPosition, kind="mergesort").reset_index(drop=True)
SortValues(df, by) == TakeRows(df, StableOrder(df, by, << >>, 1))

\* Lines 614-633
unify_pagamentos(d) ==
    LET aligned == Concat(SelectFrame(d["2022"], CANONICAL_COLS),
                          SelectFrame(d["2023"], CANONICAL_COLS),
                          SelectFrame(d["2024"], CANONICAL_COLS))
    IN  SortValues(DropNa(aligned, key_cols), sort_cols)

(***************************************************************************)
(* Frames given to unify_pagamentos.  A row is its three key cells and a   *)
(* beneficiary that tells rows with equal keys apart; the other columns    *)
(* hold one value of their type.  Up to MaxUnifyRows rows are spread over  *)
(* the three frames.                                                       *)
(***************************************************************************)
MaxUnifyRows == 3   \* rows of the three per-year frames together

UnifyRows == {
    [y |-> <<2023>>, p |-> <<"B","1">>, v |-> <<0, 5, 0>>, b |-> <<"a">>],
    [y |-> <<2023>>, p |-> <<"B","1">>, v |-> <<0, 5, 0>>, b |-> <<"b">>],
    [y |-> <<2023>>, p |-> <<"A","2">>, v |-> NaN,         b |-> <<"a">>],
    [y |-> <<2023>>, p |-> NA,          v |-> <<0, 5, 0>>, b |-> <<"a">>],
    [y |-> <<2022>>, p |-> <<"B","1">>, v |-> NaN,         b |-> <<"a">>],
    [y |-> NaN,      p |-> <<"A","2">>, v |-> <<0, 5, 0>>, b |-> <<"a">>],
    [y |-> NaN,      p |-> NA,          v |-> NaN,         b |-> <<"a">>] }

CoercedDtype(c) ==
    CASE c = "ANO_REFERENCIA" -> "Int64"
      [] c = "VALOR_PAGO" -> "float64"
      [] IsDateCol(c) -> "datetime64"
      [] OTHER -> "string"

UnifyCell(c, r) ==
    CASE c = "ANO_REFERENCIA" -> r.y
      [] c = "PROCESSO" -> r.p
      [] c = "VALOR_PAGO" -> r.v
      [] c = "BENEFICIARIO" -> r.b
      [] IsDateCol(c) -> <<2022, 12, 31, 0, 0, 0>>
      [] OTHER -> <<"X">>

YearFrame(rows) ==
    Frame(CANONICAL_COLS,
          [c \in CanonicalSet |->
              Series(CoercedDtype(c), [i \in 1..Len(rows) |-> UnifyCell(c, rows[i])])])

InitUnify ==
    /\ pc = "start"
    /\ \E n \in 0..MaxUnifyRows : \E rows \in [1..n -> UnifyRows] :
         \E a \in 0..n : \E b \in a..n :
            dfs = [k \in {"2022", "2023", "2024"} |->
                     CASE k = "2022" -> YearFrame(SubSeq(rows, 1, a))
                       [] k = "2023" -> YearFrame(SubSeq(rows, a + 1, b))
                       [] k = "2024" -> YearFrame(SubSeq(rows, b + 1, n))]
    /\ merged = Idle
    /\ EarlyIdle /\ DiscIdle /\ ReadIdle /\ SaveIdle /\ BuildIdle /\ LogIdle /\ AggIdle

\* One call unify_pagamentos(dfs)
UnifyPagamentos ==
    /\ pc = "start"
    /\ merged' = unify_pagamentos(dfs)
    /\ pc' = "unified"
    /\ UNCHANGED <<dfs, earlyVars, discVars, readVars, saveVars, buildVars, logVars, aggVars>>

NextUnify == UnifyPagamentos

SpecUnify == InitUnify /\ [][NextUnify]_vars

(***************************************************************************)
(* Unifier: claims C11 and C12.                                            *)
(***************************************************************************)
Unified == pc = "unified"

\* Row i of a frame, a function from the column names to the cells
RowOf(df, i) == [c \in ColumnSet(df) |-> df.data[c].values[i]]

RowsOf(df) == [i \in 1..NRowsOf(df) |-> RowOf(df, i)]

\* The rows of the three inputs, 2022 first, then 2023, then 2024
InputRows == RowsOf(dfs["2022"]) \o RowsOf(dfs["2023"]) \o RowsOf(dfs["2024"])

AllKeysNull(r) ==
    r["ANO_REFERENCIA"] = NaN /\ r["PROCESSO"] = NA /\ r["VALOR_PAGO"] = NaN

KeptRows == SelectSeq(InputRows, LAMBDA r : ~AllKeysNull(r))

CountIn(rows, r) == Cardinality({i \in 1..Len(rows) : rows[i] = r})

\* C11: the rows of the result are, as a multiset, the rows of the three
\* inputs without those whose reference year, process id and paid amount are
\* all null; so the result has no more rows than the inputs together, and a
\* row with a null paid amount and a process id is in the result.
C11_DropsOnlyAllNullKeyRows ==
    Unified =>
        /\ \A r \in {InputRows[i] : i \in 1..Len(InputRows)}
                      \cup {RowsOf(merged)[i] : i \in 1..NRowsOf(merged)} :
             CountIn(RowsOf(merged), r) = CountIn(KeptRows, r)
        /\ NRowsOf(merged) <= NRowsOf(dfs["2022"]) + NRowsOf(dfs["2023"]) + NRowsOf(dfs["2024"])
        /\ \A i \in 1..Len(InputRows) :
             (InputRows[i]["VALOR_PAGO"] = NaN /\ InputRows[i]["PROCESSO"] # NA)
                => CountIn(RowsOf(merged), InputRows[i]) >= 1
        /\ merged.columns = CANONICAL_COLS

C11_Witness ==
    /\ Unified
    /\ Len(InputRows) = 3
    /\ NRowsOf(merged) = 2
    /\ AllKeysNull(InputRows[1])
    /\ \E i \in 1..2 :
         /\ RowsOf(merged)[i]["VALOR_PAGO"] = NaN
         /\ RowsOf(merged)[i]["PROCESSO"] = <<"B","1">>
    /\ \E i \in 1..2 : RowsOf(merged)[i]["ANO_REFERENCIA"] = NaN

\* Row r may stand before row s: its year is smaller, or s has no year and r
\* has one, or the years agree (both null included) and the process id of r
\* is not greater, a null process id being greater than every other
MayPrecede(r, s) ==
    LET yr == r["ANO_REFERENCIA"]
        ys == s["ANO_REFERENCIA"]
        pr == r["PROCESSO"]
        ps == s["PROCESSO"]
    IN  \/ yr # NaN /\ (ys = NaN \/ yr[1] < ys[1])
        \/ /\ yr = ys
           /\ (ps = NA \/ (pr # NA /\ ~TextLess(ps, pr)))

SameKey(r, s) ==
    r["ANO_REFERENCIA"] = s["ANO_REFERENCIA"] /\ r["PROCESSO"] = s["PROCESSO"]

\* C12: the result is ordered by reference year, then process id, both
\* ascending, null keys behind the others; rows with the same year and
\* process id keep the order they had in the concatenation 2022, 2023, 2024.
C12_SortedStableNullsLast ==
    Unified =>
        LET res == RowsOf(merged)
        IN  /\ \A i, j \in 1..Len(res) : i < j => MayPrecede(res[i], res[j])
            /\ \A k \in 1..Len(res) :
                 SelectSeq(res, LAMBDA r : SameKey(r, res[k]))
                   = SelectSeq(KeptRows, LAMBDA r : SameKey(r, res[k]))

C12_Witness ==
    /\ Unified
    /\ Len(InputRows) = 3
    /\ InputRows[1]["ANO_REFERENCIA"] = NaN
    /\ InputRows[1]["PROCESSO"] = <<"A","2">>
    /\ InputRows[2]["BENEFICIARIO"] = <<"b">>
    /\ InputRows[3]["BENEFICIARIO"] = <<"a">>
    /\ SameKey(InputRows[2], InputRows[3])
    /\ RowsOf(merged) = <<InputRows[2], InputRows[3], InputRows[1]>>
    /\ NRowsOf(dfs["2023"]) = 1

(***************************************************************************)
(* Sections 5 and 6 of utils.py: build_cnpq_pagamentos_preprocessed, that  *)
(* is load_and_standardize_all with the yearly Parquet cache, then         *)
(* unify_pagamentos and save_preprocessed.  The cache directory is a       *)
(* function from the years that have a file to the file's content.  The    *)
(* trace lists what a run did, in order: for each year what os.path.exists *)
(* saw ("cache_present" or "cache_absent"), then "load" (read_parquet) or  *)
(* "read", "map", "coerce" and "write".                                    *)
(***************************************************************************)
MaxRuns == 2        \* runs of the pipeline in one behaviour

\* The key of a year in the dict returned by load_and_standardize_all
YearKey(y) ==
    CASE y = 2022 -> "2022"
      [] y = 2023 -> "2023"
      [] y = 2024 -> "2024"

Event(op, y) == [op |-> op, year |-> y]

\* The raw files: rows, headers and encodings
RawRowPool == {
    [y |-> <<"2","0","2","3">>, p |-> <<"b","1">>, v |-> <<"6","0","0",",","0","0">>],
    [y |-> <<"s","e","m"," ","a","n","o">>, p |-> NA, v |-> <<"x">>],
    [y |-> <<" ","2","0","2","2"," ">>, p |-> <<" ","a","2"," ">>, v |-> <<"R","$"," ","5">>] }

TypicalRawRow == [y |-> <<"2","0","2","3">>, p |-> <<"c","3">>, v |-> <<"5">>]

RawHeaderOf(y, c) ==
    IF y = 2022
    THEN CASE c = "ANO_REFERENCIA" -> <<"Ano Referencia">>
           [] c = "PROCESSO" -> <<"Processo", " ">>
           [] c = "VALOR_PAGO" -> <<"Valor Pago">>
    ELSE <<c>>

RawFrameOfYear(y, rows) ==
    [i \in 1..3 |->
        [label |-> RawHeaderOf(y, key_cols[i]),
         cells |-> [r \in 1..NRows |->
                      CASE i = 1 -> rows[r].y
                        [] i = 2 -> rows[r].p
                        [] i = 3 -> rows[r].v]]]

CsvFileOf(kind, frame) ==
    [e \in EncodingNames |->
        IF kind = "utf-8" \/ (kind = "latin-1" /\ e \in {"latin-1", "cp1252"})
        THEN [ok |-> TRUE, val |-> frame]
        ELSE [ok |-> FALSE, val |-> "UnicodeDecodeError"]]

FileKinds == {"utf-8", "latin-1", "unreadable"}

\* The raw file of the year y after it was replaced by a newer export
ChangedRawRow == [y |-> <<"2","0","2","4">>, p |-> <<"d","4">>, v |-> <<"7">>]

ChangedRawFile(y) == CsvFileOf("utf-8", RawFrameOfYear(y, [r \in 1..NRows |-> ChangedRawRow]))

\* Mutant of PathExists: a yearly file older than its raw file does not count
PathExists_FreshOnly(disk, y) == y \in DOMAIN disk /\ raw_files[y] # ChangedRawFile(y)

\* Mutant of PathExists: the yearly file is never found
PathExists_Never(disk, y) == FALSE

\* Line 142: os.path.exists(p)
PathExists(disk, y) == y \in DOMAIN disk

\* The frame normalize_columns returns, as the table coerce_types works on:
\* each canonical name with the cells of the column that carries it
AsTable(columns) ==
    [c \in CanonicalSet |->
        Series("object",
               columns[CHOOSE i \in 1..Len(columns) : columns[i].label = <<c>>].cells)]

\* The position after the year y is done (lines 562, 573, 584)
AfterYear(y) == IF y = 2024 THEN "b_loaded" ELSE "b_check"

\* Mutant of NextYear: 2024 is taken right after 2022
NextYear_Skip2023(y) == 2024

NextYear(y) == IF y = 2024 THEN y ELSE y + 1

\* Line 547
BuildDiscover ==
    /\ pc = "b_start"
    /\ found' = discover_raw_files(listing)
    /\ pc' = IF found'.raised THEN "b_failed" ELSE "b_check"
    /\ UNCHANGED <<listing, earlyVars, readVars, saveVars, unifyVars, buildVars, logVars, aggVars>>

\* Lines 552-554 (and 563-565, 574-576): load_year_parquet_if_exists, and on
\* a hit the cached frame goes into the dict
CheckCache ==
    /\ pc = "b_check"
    /\ LET y == cur.year
           seen == Event(IF y \in DOMAIN cache THEN "cache_present" ELSE "cache_absent", y)
       IN  IF PathExists(cache, y)
           THEN /\ out_dfs' = [k \in DOMAIN out_dfs \cup {YearKey(y)} |->
                                 IF k = YearKey(y) THEN read_parquet(cache[y]) ELSE out_dfs[k]]
                /\ trace' = trace \o <<seen, Event("load", y)>>
                /\ cur' = [year |-> NextYear(y), df |-> NoFrame]
                /\ pc' = AfterYear(y)
           ELSE /\ trace' = Append(trace, seen)
                /\ pc' = "b_read"
                /\ UNCHANGED <<out_dfs, cur, logVars, aggVars>>
    /\ UNCHANGED <<raw_files, cache, runs, earlyVars, discVars, readVars, saveVars, unifyVars, logVars, aggVars>>

\* Line 556: read_2022(found["y2022"]); a RuntimeError ends the run
ReadRaw ==
    /\ pc = "b_read"
    /\ LET res == read_csv_flexible(raw_files[cur.year])
       IN  /\ read_out' = res
           /\ IF res.raised
              THEN pc' = "b_failed" /\ UNCHANGED <<cur, trace, logVars, aggVars>>
              ELSE /\ cur' = [cur EXCEPT !.df = res.df]
                   /\ trace' = Append(trace, Event("read", cur.year))
                   /\ pc' = "b_map"
    /\ UNCHANGED <<csv_file, raw_files, cache, out_dfs, runs,
                   earlyVars, discVars, saveVars, unifyVars, logVars, aggVars>>

\* Line 557
MapColumns ==
    /\ pc = "b_map"
    /\ cur' = [cur EXCEPT !.df = normalize_columns(cur.df, MappingOf(cur.year))]
    /\ trace' = Append(trace, Event("map", cur.year))
    /\ pc' = "b_coerce"
    /\ UNCHANGED <<raw_files, cache, out_dfs, runs,
                   earlyVars, discVars, readVars, saveVars, unifyVars, logVars, aggVars>>

\* Line 558
CoerceYear ==
    /\ pc = "b_coerce"
    /\ cur' = [cur EXCEPT !.df = Frame(CANONICAL_COLS, coerce_types(AsTable(cur.df)).df)]
    /\ trace' = Append(trace, Event("coerce", cur.year))
    /\ pc' = "b_save_year"
    /\ UNCHANGED <<raw_files, cache, out_dfs, runs,
                   earlyVars, discVars, readVars, saveVars, unifyVars, logVars, aggVars>>

\* Lines 559-560: save_year_parquet, then the frame goes into the dict
SaveYear ==
    /\ pc = "b_save_year"
    /\ LET y == cur.year
       IN  /\ cache' = [k \in DOMAIN cache \cup {y} |->
                          IF k = y THEN to_parquet(cur.df) ELSE cache[k]]
           /\ out_dfs' = [k \in DOMAIN out_dfs \cup {YearKey(y)} |->
                            IF k = YearKey(y) THEN cur.df ELSE out_dfs[k]]
           /\ trace' = Append(trace, Event("write", y))
           /\ cur' = [year |-> NextYear(y), df |-> NoFrame]
           /\ pc' = AfterYear(y)
    /\ UNCHANGED <<raw_files, runs, earlyVars, discVars, readVars, saveVars, unifyVars, logVars, aggVars>>

\* Line 690
BuildUnify ==
    /\ pc = "b_loaded"
    /\ merged' = unify_pagamentos(out_dfs)
    /\ dfs' = out_dfs
    /\ pc' = "b_unified"
    /\ UNCHANGED <<earlyVars, discVars, readVars, saveVars, buildVars, logVars, aggVars>>

\* Line 691: save_preprocessed(merged, paths), write_csv left at None
BuildSave ==
    /\ pc = "b_unified"
    /\ LET res == save_preprocessed(merged, "None", save_in.env, files.disk)
       IN  /\ files' = res
           /\ runs' = Append(runs, [trace |-> trace, parquet |-> res.disk[out_parquet]])
    /\ pc' = "b_done"
    /\ UNCHANGED <<save_in, raw_files, cache, out_dfs, cur, trace,
                   earlyVars, discVars, readVars, unifyVars, logVars, aggVars>>

\* build_dataset.py is run again, the cache as it is
Rerun ==
    /\ pc = "b_done"
    /\ Len(runs) < MaxRuns
    /\ pc' = "b_start"
    /\ out_dfs' = EmptyDict
    /\ cur' = [year |-> 2022, df |-> NoFrame]
    /\ trace' = << >>
    /\ UNCHANGED <<raw_files, cache, runs, earlyVars, discVars, readVars, saveVars, unifyVars, logVars, aggVars>>

\* Before a later run starts, the raw file of a year is replaced by a newer
\* export
ChangeRaw ==
    /\ pc = "b_start"
    /\ runs # << >>
    /\ \E y \in Years :
         /\ raw_files[y] # ChangedRawFile(y)
         /\ raw_files' = [raw_files EXCEPT ![y] = ChangedRawFile(y)]
    /\ UNCHANGED <<pc, cache, out_dfs, cur, trace, runs,
                   earlyVars, discVars, readVars, saveVars, unifyVars, logVars, aggVars>>

NextBuild ==
    \/ BuildDiscover \/ CheckCache \/ ReadRaw \/ MapColumns \/ CoerceYear
    \/ SaveYear \/ BuildUnify \/ BuildSave \/ Rerun \/ ChangeRaw

(***************************************************************************)
(* The files the pipeline starts from.  The raw file of one year holds     *)
(* NRows rows drawn from RawRowPool and reads under all encodings, under   *)
(* the Latin ones only, or under none; the other two hold a typical row    *)
(* and read as UTF-8.  A raw file carries the year's own headers of the    *)
(* three key columns.  The cache is empty, or holds files of an earlier    *)
(* day for 2023 or for every year.                                         *)
(***************************************************************************)
CompleteListing == <<
    [name |-> <<"R","e","l","a","t","o","r","i","o","_","2","0","2","2",".","c","s","v">>, isfile |-> TRUE],
    [name |-> <<"D","a","d","o","s","-","d","e","-","P","a","g","a","m","e","n","t","o","-","2","0","2","3","-","P","D","A",".","c","s","v">>, isfile |-> TRUE],
    [name |-> <<"2","0","2","5","0","2","0","4","_","p","a","g","a","m","e","n","t","o","s",".","c","s","v">>, isfile |-> TRUE] >>

\* A yearly file of an earlier day
StaleCacheFile == to_parquet(YearFrame(<< [y |-> <<2021>>, p |-> <<"Z","9">>, v |-> NaN, b |-> <<"z">>] >>))

InitialCaches == {
    [y \in {} |-> StaleCacheFile],
    [y \in {2023} |-> StaleCacheFile],
    [y \in Years |-> StaleCacheFile] }

InitBuild ==
    /\ pc = "b_start"
    /\ listing \in {CompleteListing, SubSeq(CompleteListing, 1, 2)}
    /\ found = Idle
    /\ \E focus \in Years : \E rows \in [1..NRows -> RawRowPool] : \E kind \in FileKinds :
         raw_files = [y \in Years |->
                        IF y = focus THEN CsvFileOf(kind, RawFrameOfYear(y, rows))
                        ELSE CsvFileOf("utf-8", RawFrameOfYear(y, [r \in 1..NRows |-> TypicalRawRow]))]
    /\ cache \in InitialCaches
    /\ out_dfs = EmptyDict
    /\ cur = [year |-> 2022, df |-> NoFrame]
    /\ trace = << >>
    /\ runs = << >>
    /\ save_in = [df |-> NoFrame, write_csv |-> "None", env |-> Unset]
    /\ files = [disk |-> EmptyDisk, ret |-> << >>]
    /\ dfs = Idle /\ merged = Idle
    /\ EarlyIdle /\ ReadIdle /\ LogIdle /\ AggIdle

SpecBuild == InitBuild /\ [][NextBuild]_vars

(***************************************************************************)
(* Pipeline with the yearly cache: claims C13 and C14.                     *)
(***************************************************************************)
InBuild == pc \in {"b_start", "b_check", "b_read", "b_map", "b_coerce", "b_save_year",
                   "b_loaded", "b_unified", "b_done", "b_failed"}

\* What the current run did for the year y, in order
StepsOf(y) ==
    LET evs == SelectSeq(trace, LAMBDA e : e.year = y)
    IN  [i \in 1..Len(evs) |-> evs[i].op]

HitSteps == <<"cache_present", "load">>

MissSteps == <<"cache_absent", "read", "map", "coerce", "write">>

IsPrefix(s, full) == Len(s) <= Len(full) /\ s = SubSeq(full, 1, Len(s))

\* The frame a fresh load of the year's raw file gives
FreshFrame(y) ==
    Frame(CANONICAL_COLS,
          coerce_types(AsTable(normalize_columns(read_csv_flexible(raw_files[y]).df,
                                                 MappingOf(y)))).df)

\* C13: for each year the run reads the raw file, maps and coerces exactly
\* when the year's cache file is absent at the check, and then in this order,
\* the write to the cache last; a frame is in the dict to be returned only
\* after a hit, and then it is the cached frame and nothing else was done for
\* the year, or after a miss followed by the read, the mapping, the coercion
\* and the write, and then the cache holds that frame; a miss alone never
\* fails the run.
C13_FreshLoadIffCacheAbsent ==
    InBuild =>
        /\ \A y \in Years :
            /\ \/ StepsOf(y) = HitSteps
               \/ IsPrefix(StepsOf(y), MissSteps)
            /\ YearKey(y) \in DOMAIN out_dfs =>
                 /\ y \in DOMAIN cache
                 /\ cache[y] = to_parquet(out_dfs[YearKey(y)])
                 /\ \/ StepsOf(y) = HitSteps
                    \/ StepsOf(y) = MissSteps /\ out_dfs[YearKey(y)] = FreshFrame(y)
            /\ StepsOf(y) # << >> /\ YearKey(y) \notin DOMAIN out_dfs =>
                 /\ cur.year = y
                 /\ pc \in {"b_read", "b_map", "b_coerce", "b_save_year", "b_failed"}
        /\ pc \in {"b_loaded", "b_unified", "b_done"} =>
             DOMAIN out_dfs = {"2022", "2023", "2024"}
        /\ pc = "b_failed" =>
             \/ found.raised
             \/ /\ StepsOf(cur.year) = <<"cache_absent">>
                /\ \A e \in EncodingNames : ~raw_files[cur.year][e].ok

C13_Witness ==
    /\ pc = "b_loaded"
    /\ StepsOf(2022) = MissSteps
    /\ StepsOf(2023) = HitSteps
    /\ StepsOf(2024) = MissSteps
    /\ out_dfs["2022"].data["VALOR_PAGO"].values[1] = <<0, 600, 0>>
    /\ out_dfs["2023"].data["BENEFICIARIO"].values = << <<"z">> >>

\* The run whose record is r found no yearly cache file
ColdRun(r) == \A i \in 1..Len(r.trace) : r.trace[i].op # "cache_present"

\* The run whose record is r found every yearly cache file
WarmRun(r) == \A i \in 1..Len(r.trace) : r.trace[i].op \in {"cache_present", "load"}

\* C14: when the first run starts from an empty cache, every later run, the
\* raw files unchanged, loads the three years from the cache and writes the
\* same unified Parquet file as the first.
C14_CacheChangesNoOutput ==
    (InBuild /\ Len(runs) >= 1 /\ ColdRun(runs[1])) =>
        \A k \in 2..Len(runs) :
            /\ WarmRun(runs[k])
            /\ runs[k].parquet = runs[1].parquet

C14_Witness ==
    /\ InBuild
    /\ Len(runs) = 2
    /\ ColdRun(runs[1])
    /\ WarmRun(runs[2])
    /\ Len(runs[2].trace) = 6
    /\ Len(runs[2].parquet.fields["PROCESSO"].values) = 3 * NRows - 1
    /\ runs[2].parquet.fields["UO"].values[1] = PqNull
    /\ \E i \in 1..Len(runs[2].parquet.fields["PROCESSO"].values) :
         runs[2].parquet.fields["PROCESSO"].values[i] = PqValue(<<"A","2">>)

(***************************************************************************)
(* Type coercer applied to its own result: claim C29.                      *)
(***************************************************************************)
CoercedAgain == coerce_types(df_out.df).df

SameCell(a, b, c, i) ==
    /\ a[c].dtype = b[c].dtype
    /\ Len(a[c].values) = Len(b[c].values)
    /\ i \in 1..Len(a[c].values)
    /\ a[c].values[i] = b[c].values[i]

\* A reference year the first call gave that is written with fewer than 4 digits
ShortYearAt(c, i) ==
    /\ c = "ANO_REFERENCIA"
    /\ Len(df_out.df[c].values[i]) = 1
    /\ df_out.df[c].values[i][1] < 1000

RawFileMissing == \E k \in 1..Len(YearKeys) : ~Matched(YearKeys[k])

\* C26: no cache is consulted before the discovery has returned the three
\* paths; when a raw file is missing the run fails in the discovery with the
\* list of missing years, whatever the cache holds, and then no cache file
\* was read or written, no frame loaded and no unified file written.
C26_DiscoveryBeforeCache ==
    InBuild =>
        /\ trace # << >> => (pc # "b_start" /\ ~found.raised)
        /\ (RawFileMissing /\ pc # "b_start") =>
              /\ pc = "b_failed"
              /\ found.raised
              /\ found.missing # << >>
              /\ trace = << >>
              /\ cache \in InitialCaches
              /\ DOMAIN out_dfs = {}
              /\ runs = << >>
              /\ DOMAIN files.disk = {}

C26_Witness ==
    /\ pc = "b_failed"
    /\ RawFileMissing
    /\ DOMAIN cache = Years
    /\ found.raised
    /\ Len(found.missing) = 1
    /\ trace = << >>
    /\ DOMAIN files.disk = {}

\* The run is at a step of the year cur.year that may raise (lines 556-558),
\* or has failed in one
AtFallibleStep == pc \in {"b_read", "b_map", "b_coerce"} \/ (pc = "b_failed" /\ ~found.raised)

InYears == pc \in {"b_check", "b_read", "b_map", "b_coerce", "b_save_year"} \/ AtFallibleStep

\* C27: the run takes the years in the order 2022, 2023, 2024, each one done
\* before the next begins.  Where reading, mapping or coercing the year Y
\* may fail, and after such a failure, every earlier year freshly loaded has
\* its frame in the cache, the cache of Y and of the later years is as it
\* was before the run, and the unified file is as the last finished run left
\* it; a failed run takes no further step.
C27_FailureKeepsEarlierCaches ==
    InBuild =>
        /\ \A i \in 1..Len(trace) : \A j \in 1..Len(trace) :
              i < j => trace[i].year <= trace[j].year
        /\ InYears =>
              /\ \A y \in Years : y < cur.year => StepsOf(y) \in {HitSteps, MissSteps}
              /\ \A y \in Years : y > cur.year => StepsOf(y) = << >>
        /\ AtFallibleStep =>
              /\ \A y \in Years : (y < cur.year /\ StepsOf(y) = MissSteps) =>
                    (y \in DOMAIN cache /\ cache[y] = to_parquet(FreshFrame(y)))
              /\ \A y \in Years : y >= cur.year =>
                    (y \notin DOMAIN cache \/ cache[y] = StaleCacheFile)
              /\ IF runs = << >> THEN DOMAIN files.disk = {}
                 ELSE files.disk[out_parquet] = runs[Len(runs)].parquet
        /\ pc = "b_failed" => ~ENABLED NextBuild

C27_Witness ==
    /\ pc = "b_failed"
    /\ ~found.raised
    /\ cur.year = 2023
    /\ StepsOf(2022) = MissSteps
    /\ StepsOf(2023) = <<"cache_absent">>
    /\ DOMAIN cache = {2022}
    /\ cache[2022] = to_parquet(FreshFrame(2022))
    /\ DOMAIN files.disk = {}

\* C28: no step of any run removes or rewrites a yearly cache file that
\* exists, and a year whose cache file exists gets into the dict of a run
\* only as the frame read from that file, whether or not the raw file of the
\* year was replaced since the cache was written.
C28_CacheNeverRewritten ==
    [][InBuild =>
         \A y \in Years :
            y \in DOMAIN cache =>
                /\ y \in DOMAIN cache'
                /\ cache'[y] = cache[y]
                /\ (YearKey(y) \notin DOMAIN out_dfs /\ YearKey(y) \in DOMAIN out_dfs') =>
                      /\ out_dfs'[YearKey(y)] = read_parquet(cache[y])
                      /\ StepsOf(y)' = HitSteps]_vars

C28_Witness ==
    /\ pc = "b_loaded"
    /\ Len(runs) = 1
    /\ ColdRun(runs[1])
    /\ raw_files[2022] = ChangedRawFile(2022)
    /\ StepsOf(2022) = HitSteps
    /\ out_dfs["2022"] = read_parquet(cache[2022])
    /\ out_dfs["2022"].data["PROCESSO"].values # FreshFrame(2022).data["PROCESSO"].values

(***************************************************************************)
(* get_logger of utils.py and of utils_streamlit.py.  Each module keeps    *)
(* its own global _LOGGER; logging.getLogger(name) gives the one logger of *)
(* that name in the process.  A logger is its level, its handlers in the   *)
(* order attached and its propagate flag; a record logged goes to every    *)
(* handler, and both modules' handlers write src/../logs/app.log.          *)
(***************************************************************************)
MaxCalls == 6       \* get_logger calls in one process

None == "None"

\* Lines 76 (utils.py) and 70 (utils_streamlit.py)
LoggerName == "t2pvd"

NewLogger == [level |-> "NOTSET", handlers |-> << >>, propagate |-> TRUE]

\* logging.getLogger(name): the registry with the logger of that name in it
getLogger(reg, name) ==
    IF name \in DOMAIN reg THEN reg
    ELSE [n \in DOMAIN reg \cup {name} |-> IF n = name THEN NewLogger ELSE reg[n]]

\* RotatingFileHandler(log_path, ...) built by the module named
FileHandler(module) == [class |-> "RotatingFileHandler", path |-> "logs/app.log", by |-> module]

\* logger.info(...): one record per handler attached
Emit(lg, log, msg) == log \o [i \in 1..Len(lg.handlers) |-> msg]

\* One call of a module's get_logger, its global being g
get_logger(g, module, reg, log) ==
    IF g # None
    THEN [global |-> g, loggers |-> reg, app_log |-> log, ret |-> g]
    ELSE LET got == getLogger(reg, LoggerName)
             lg  == [level      |-> "INFO",
                     handlers   |-> Append(got[LoggerName].handlers, FileHandler(module)),
                     propagate  |-> FALSE]
         IN  [global  |-> LoggerName,
              loggers |-> [got EXCEPT ![LoggerName] = lg],
              app_log |-> Emit(lg, log, "logger_initialized"),
              ret     |-> LoggerName]

InitLogger ==
    /\ pc = "logging"
    /\ LOGGER_utils = None
    /\ LOGGER_streamlit = None
    /\ loggers = [n \in {} |-> NewLogger]
    /\ app_log = << >>
    /\ returned = None
    /\ calls = << >>
    /\ EarlyIdle /\ DiscIdle /\ ReadIdle /\ SaveIdle /\ UnifyIdle /\ BuildIdle /\ AggIdle

\* utils.get_logger()
GetLoggerUtils ==
    /\ pc = "logging"
    /\ Len(calls) < MaxCalls
    /\ LET res == get_logger(LOGGER_utils, "utils", loggers, app_log)
       IN  /\ LOGGER_utils' = res.global
           /\ loggers' = res.loggers
           /\ app_log' = res.app_log
           /\ returned' = res.ret
    /\ calls' = Append(calls, "utils")
    /\ UNCHANGED <<pc, LOGGER_streamlit, earlyVars, discVars, readVars, saveVars,
                   unifyVars, buildVars, aggVars>>

\* utils_streamlit.get_logger()
GetLoggerStreamlit ==
    /\ pc = "logging"
    /\ Len(calls) < MaxCalls
    /\ LET res == get_logger(LOGGER_streamlit, "utils_streamlit", loggers, app_log)
       IN  /\ LOGGER_streamlit' = res.global
           /\ loggers' = res.loggers
           /\ app_log' = res.app_log
           /\ returned' = res.ret
    /\ calls' = Append(calls, "utils_streamlit")
    /\ UNCHANGED <<pc, LOGGER_utils, earlyVars, discVars, readVars, saveVars,
                   unifyVars, buildVars, aggVars>>

NextLogger == GetLoggerUtils \/ GetLoggerStreamlit

SpecLogger == InitLogger /\ [][NextLogger]_vars

\* C25: once get_logger was called, the logger "t2pvd" has exactly one file
\* handler and the call returned that logger.
C25_OneHandlerSameLogger ==
    (pc = "logging" /\ calls # << >>) =>
        /\ returned = LoggerName
        /\ LoggerName \in DOMAIN loggers
        /\ Len(loggers[LoggerName].handlers) = 1

(***************************************************************************)
(* utils_streamlit.py, sections 2, 3 and 5: the aggregations behind the    *)
(* charts.  A table is its column names in order, the pandas dtype of each *)
(* column and its rows, each a function from the column names to values.   *)
(* An aggregated number is the exact fraction <<numerator, denominator>>,  *)
(* reduced, or NaN; the rounding of binary floats is not modelled.         *)
(***************************************************************************)
Table(columns, dtypes, rows) == [columns |-> columns, dtypes |-> dtypes, rows |-> rows]

NoTable == Table(<< >>, << >>, << >>)

HasColumn(df, c) == \E k \in 1..Len(df.columns) : df.columns[k] = c

\* The call raised: KeyError for a column pandas does not find, ValueError
\* where the function itself tests the column
Raise(kind, c) == [raised |-> TRUE, error |-> kind, column |-> c, table |-> NoTable]

Return(t) == [raised |-> FALSE, error |-> "", column |-> "", table |-> t]

\* An optional argument: << >> for None, <<v>> for the value v
Given(arg) == arg # << >>

RECURSIVE GCD(_, _)
GCD(a, b) == IF b = 0 THEN a ELSE GCD(b, a % b)

Ratio(n, d) ==
    LET g == GCD(IF n < 0 THEN -n ELSE n, d)
    IN  <<n \div g, d \div g>>

RECURSIVE Pow10(_)
Pow10(k) == IF k = 0 THEN 1 ELSE 10 * Pow10(k - 1)

\* The number a float64 cell holds
RatOf(f) == Ratio(IF f[1] = 1 THEN -f[2] ELSE f[2], Pow10(f[3]))

RAdd(a, b) == Ratio(a[1] * b[2] + b[1] * a[2], a[2] * b[2])

RLess(a, b) == a[1] * b[2] < b[1] * a[2]

\* sum of a sequence of fractions, 0 for none
RECURSIVE RSum(_)
RSum(qs) == IF qs = << >> THEN <<0, 1>> ELSE RAdd(Head(qs), RSum(Tail(qs)))

\* mean of a sequence of fractions, NaN for none
RMean(qs) ==
    IF qs = << >> THEN NaN
    ELSE Ratio(RSum(qs)[1], RSum(qs)[2] * Len(qs))

\* The non-null paid amounts of some rows, as fractions
Amounts(rows) ==
    LET vals == SelectSeq([i \in 1..Len(rows) |-> rows[i]["VALOR_PAGO"]], LAMBDA v : v # NaN)
    IN  [i \in 1..Len(vals) |-> RatOf(vals[i])]

\* Mutant of ensure_numeric_valor: a missing VALOR_PAGO is created, all null
ensure_numeric_valor_Creates(df) ==
    IF HasColumn(df, "VALOR_PAGO") THEN df
    ELSE Table(Append(df.columns, "VALOR_PAGO"),
               [c \in {df.columns[k] : k \in 1..Len(df.columns)} \cup {"VALOR_PAGO"} |->
                   IF c = "VALOR_PAGO" THEN "float64" ELSE df.dtypes[c]],
               [i \in 1..Len(df.rows) |->
                   [c \in {df.columns[k] : k \in 1..Len(df.columns)} \cup {"VALOR_PAGO"} |->
                       IF c = "VALOR_PAGO" THEN NaN ELSE df.rows[i][c]]])

\* Lines 191-195: _ensure_numeric_valor.  Without the column df.get gives an
\* empty float series and nothing is converted.
ensure_numeric_valor(df) ==
    IF ~HasColumn(df, "VALOR_PAGO") \/ df.dtypes["VALOR_PAGO"] \in NumericDtypes THEN df
    ELSE Table(df.columns,
               [df.dtypes EXCEPT !["VALOR_PAGO"] = "float64"],
               [i \in 1..Len(df.rows) |->
                   [df.rows[i] EXCEPT !["VALOR_PAGO"] = to_numeric_value(@)]])

\* pd.to_numeric(df["ANO_REFERENCIA"], errors="coerce").astype("Int64"), one cell
YearCell(df, r) ==
    IF df.dtypes["ANO_REFERENCIA"] = "Int64" THEN r["ANO_REFERENCIA"]
    ELSE AsInt64(to_numeric_value(r["ANO_REFERENCIA"]))

\* df[mask]: a null in the mask counts as False
YearMatches(df, r, y) == YearCell(df, r) = <<y>>

\* Mutant of filter_year: when no row has the year the frame is returned whole
filter_year_AllWhenNone(df, yr) ==
    IF ~Given(yr) \/ ~\E i \in 1..Len(df.rows) : YearMatches(df, df.rows[i], yr[1])
    THEN df
    ELSE [df EXCEPT !.rows = SelectSeq(df.rows, LAMBDA r : YearMatches(df, r, yr[1]))]

\* Lines 197-200: _filter_year, the column being there
filter_year(df, yr) ==
    IF ~Given(yr) THEN df
    ELSE [df EXCEPT !.rows = SelectSeq(df.rows, LAMBDA r : YearMatches(df, r, yr[1]))]

\* Line 200 raises KeyError when a year is given and the column is missing
FilterYearRaises(df, yr) == Given(yr) /\ ~HasColumn(df, "ANO_REFERENCIA")

\* df[df[c] == val]
WhereEquals(df, c, val) ==
    [df EXCEPT !.rows = SelectSeq(df.rows, LAMBDA r : r[c] # NullOf(df.dtypes[c]) /\ r[c] = val)]

\* df.dropna(subset=cols): a row goes when any of the columns is null
DropNaAny(df, cols) ==
    [df EXCEPT !.rows = SelectSeq(df.rows, LAMBDA r :
        \A k \in 1..Len(cols) : r[cols[k]] # NullOf(df.dtypes[cols[k]]))]

\* df[cols].copy()
Project(df, cols) ==
    Table(cols,
          [c \in {cols[k] : k \in 1..Len(cols)} |-> df.dtypes[c]],
          [i \in 1..Len(df.rows) |-> [c \in {cols[k] : k \in 1..Len(cols)} |-> df.rows[i][c]]])

\* The first of the columns cols missing from df, or None
FirstMissing(df, cols) ==
    IF \A k \in 1..Len(cols) : HasColumn(df, cols[k]) THEN None
    ELSE cols[CHOOSE k \in 1..Len(cols) :
                 ~HasColumn(df, cols[k]) /\ \A j \in 1..(k - 1) : HasColumn(df, cols[j])]

\* The group key of a row
KeyOf(r, by) == [k \in 1..Len(by) |-> r[by[k]]]

RECURSIVE KeyLess(_, _, _, _)
KeyLess(df, by, a, b) ==
    IF by = << >> THEN FALSE
    ELSE IF Head(a) # Head(b) THEN ValueLess(df.dtypes[Head(by)], Head(a), Head(b))
    ELSE KeyLess(df, Tail(by), Tail(a), Tail(b))

RECURSIVE SortedKeys(_, _, _)
SortedKeys(df, by, keys) ==
    IF keys = {} THEN << >>
    ELSE LET m == CHOOSE x \in keys : \A y \in keys \ {x} : KeyLess(df, by, x, y)
         IN  <<m>> \o SortedKeys(df, by, keys \ {m})

\* groupby(by): the keys present, ascending (sort=True)
GroupKeys(df, by) == SortedKeys(df, by, {KeyOf(df.rows[i], by) : i \in 1..Len(df.rows)})

\* The rows of one group, in frame order
Members(df, by, key) == SelectSeq(df.rows, LAMBDA r : KeyOf(r, by) = key)

\* Whether row a goes strictly before row b in sort_values(col, ascending=False):
\* the larger number first, NaN last
BeforeDesc(a, b, col) == a[col] # NaN /\ (b[col] = NaN \/ RLess(b[col], a[col]))

\* sort_values(col, ascending=False, kind="mergesort"): stable
RECURSIVE SortDesc(_, _)
SortDesc(rows, col) ==
    IF rows = << >> THEN << >>
    ELSE LET init  == SortDesc(SubSeq(rows, 1, Len(rows) - 1), col)
             r     == rows[Len(rows)]
             ahead == Cardinality({k \in 1..Len(init) : ~BeforeDesc(r, init[k], col)})
         IN  SubSeq(init, 1, ahead) \o <<r>> \o SubSeq(init, ahead + 1, Len(init))

\* groupby(col, as_index=False).agg(<total>=("VALOR_PAGO", "sum"),
\* <n>=("VALOR_PAGO", "size")), the key column named keyname in the result
SumSizeBy(df, col, keyname, total, n) ==
    LET keys == GroupKeys(df, <<col>>)
    IN  Table(<<keyname, total, n>>,
              [c \in {keyname, total, n} |->
                  IF c = keyname THEN df.dtypes[col] ELSE IF c = total THEN "float64" ELSE "int64"],
              [j \in 1..Len(keys) |->
                  [c \in {keyname, total, n} |->
                      IF c = keyname THEN keys[j][1]
                      ELSE IF c = total THEN RSum(Amounts(Members(df, <<col>>, keys[j])))
                      ELSE Len(Members(df, <<col>>, keys[j]))]])

SortedDesc(t, col) == [t EXCEPT !.rows = SortDesc(t.rows, col)]

\* Lines 217-227: the column agg_total_invest_by_region groups by, or None
RegionColumn(df, prefer_destino) ==
    IF HasColumn(df, "REGIAO_DESTINO") THEN "REGIAO_DESTINO"
    ELSE IF HasColumn(df, "REGIAO") THEN "REGIAO"
    ELSE IF prefer_destino /\ HasColumn(df, "SIGLA_UF_DESTINO") THEN "SIGLA_UF_DESTINO"
    ELSE IF HasColumn(df, "SIGLA_UF_ORIGEM") THEN "SIGLA_UF_ORIGEM"
    ELSE None

\* Lines 207-235
agg_total_invest_by_region(df0, yr, prefer_destino) ==
    LET df1 == ensure_numeric_valor(df0)
        df  == filter_year(df1, yr)
        reg_col == RegionColumn(df1, prefer_destino)
    IN  IF FilterYearRaises(df1, yr) THEN Raise("KeyError", "ANO_REFERENCIA")
        ELSE IF reg_col = None THEN Raise("ValueError", "REGIAO")
        ELSE IF ~HasColumn(df, "VALOR_PAGO") THEN Raise("KeyError", "VALOR_PAGO")
        ELSE Return(SortedDesc(SumSizeBy(DropNaAny(df, <<reg_col>>), reg_col,
                                         "REGIAO", "valor_total", "n_linhas"),
                               "valor_total"))

\* Lines 238-256
agg_total_invest_by_area(df0, yr, level) ==
    LET df1 == ensure_numeric_valor(df0)
        df  == filter_year(df1, yr)
    IN  IF FilterYearRaises(df1, yr) THEN Raise("KeyError", "ANO_REFERENCIA")
        ELSE IF ~HasColumn(df, level) THEN Raise("ValueError", level)
        ELSE IF ~HasColumn(df, "VALOR_PAGO") THEN Raise("KeyError", "VALOR_PAGO")
        ELSE Return(SortedDesc(SumSizeBy(DropNaAny(df, <<level>>), level,
                                         level, "valor_total", "n_linhas"),
                               "valor_total"))

\* Mutant of censored_names: no name is taken for a censored one
censored_names_Empty == {}

\* Line 284
censored_names == { <<"X","X","X","X">>, <<"X","X","X"," ","X","X","X"," ","X","X","X">> }

\* df[~df[c].isin(names)]: a null is in no list
NotIn(df, c, names) ==
    [df EXCEPT !.rows = SelectSeq(df.rows, LAMBDA r : r[c] \notin names)]

\* Mutant of EntityTotals: one entry per row, the amounts of an entity not summed
EntityTotals_PerRow(df, entity) ==
    Table(<<"MODALIDADE", entity, "VALOR_PAGO">>,
          [c \in {"MODALIDADE", entity, "VALOR_PAGO"} |->
              IF c = "VALOR_PAGO" THEN "float64" ELSE df.dtypes[c]],
          [i \in 1..Len(df.rows) |->
              [c \in {"MODALIDADE", entity, "VALOR_PAGO"} |->
                  IF c = "VALOR_PAGO"
                  THEN (IF df.rows[i][c] = NaN THEN NaN ELSE RatOf(df.rows[i][c]))
                  ELSE df.rows[i][c]]])

\* Lines 286-287 and 294-295:
\* groupby(["MODALIDADE", entity], as_index=False)["VALOR_PAGO"].sum()
EntityTotals(df, entity) ==
    LET by   == <<"MODALIDADE", entity>>
        keys == GroupKeys(df, by)
    IN  Table(<<"MODALIDADE", entity, "VALOR_PAGO">>,
              [c \in {"MODALIDADE", entity, "VALOR_PAGO"} |->
                  IF c = "VALOR_PAGO" THEN "float64" ELSE df.dtypes[c]],
              [j \in 1..Len(keys) |->
                  [c \in {"MODALIDADE", entity, "VALOR_PAGO"} |->
                      IF c = "MODALIDADE" THEN keys[j][1]
                      ELSE IF c = entity THEN keys[j][2]
                      ELSE RSum(Amounts(Members(df, by, keys[j])))]])

\* Lines 288-290 and 296-298: groupby("MODALIDADE", as_index=False)
\* .agg(valor_em_reais=("VALOR_PAGO", "mean"), n_unicos=(entity, "nunique"))
MeanOverEntities(tmp, entity) ==
    LET keys == GroupKeys(tmp, <<"MODALIDADE">>)
        totals(key) ==
            LET rows == Members(tmp, <<"MODALIDADE">>, key)
            IN  SelectSeq([i \in 1..Len(rows) |-> rows[i]["VALOR_PAGO"]], LAMBDA v : v # NaN)
        names(key) ==
            LET rows == Members(tmp, <<"MODALIDADE">>, key)
            IN  {rows[i][entity] : i \in 1..Len(rows)}
    IN  Table(<<"MODALIDADE", "valor_em_reais", "n_unicos">>,
              [c \in {"MODALIDADE", "valor_em_reais", "n_unicos"} |->
                  IF c = "MODALIDADE" THEN tmp.dtypes[c]
                  ELSE IF c = "valor_em_reais" THEN "float64" ELSE "int64"],
              [j \in 1..Len(keys) |->
                  [c \in {"MODALIDADE", "valor_em_reais", "n_unicos"} |->
                      IF c = "MODALIDADE" THEN keys[j][1]
                      ELSE IF c = "valor_em_reais" THEN RMean(totals(keys[j]))
                      ELSE Cardinality(names(keys[j]))]])

\* Lines 259-301
agg_invest_by_category(df0, yr, how) ==
    LET df1 == ensure_numeric_valor(df0)
        df  == filter_year(df1, yr)
    IN  IF FilterYearRaises(df1, yr) THEN Raise("KeyError", "ANO_REFERENCIA")
        ELSE IF ~HasColumn(df, "MODALIDADE") THEN Raise("ValueError", "MODALIDADE")
        ELSE IF how = "sum"
        THEN IF ~HasColumn(df, "VALOR_PAGO") THEN Raise("KeyError", "VALOR_PAGO")
             ELSE Return(SortedDesc(SumSizeBy(DropNaAny(df, <<"MODALIDADE">>), "MODALIDADE",
                                              "MODALIDADE", "valor_em_reais", "n_unicos"),
                                    "valor_em_reais"))
        ELSE IF how = "per_beneficiary_mean"
        THEN IF ~HasColumn(df, "BENEFICIARIO") THEN Raise("ValueError", "BENEFICIARIO")
             ELSE IF ~HasColumn(df, "VALOR_PAGO") THEN Raise("KeyError", "VALOR_PAGO")
             ELSE Return(SortedDesc(
                     MeanOverEntities(
                         EntityTotals(DropNaAny(NotIn(df, "BENEFICIARIO", censored_names),
                                                <<"BENEFICIARIO", "MODALIDADE">>),
                                      "BENEFICIARIO"),
                         "BENEFICIARIO"),
                     "valor_em_reais"))
        ELSE IF ~HasColumn(df, "PROCESSO") THEN Raise("ValueError", "PROCESSO")
             ELSE IF ~HasColumn(df, "VALOR_PAGO") THEN Raise("KeyError", "VALOR_PAGO")
             ELSE Return(SortedDesc(
                     MeanOverEntities(
                         EntityTotals(DropNaAny(df, <<"PROCESSO", "MODALIDADE">>), "PROCESSO"),
                         "PROCESSO"),
                     "valor_em_reais"))

\* Lines 315-321, 343-348 and 378-383: df[selected].dropna(subset=...).copy()
BoxData(df, selected, subset) ==
    IF FirstMissing(df, selected) # None THEN Raise("KeyError", FirstMissing(df, selected))
    ELSE Return(DropNaAny(Project(df, selected), subset))

\* Lines 304-321
agg_box_data_by_category(df0, yr, category) ==
    LET df1 == ensure_numeric_valor(df0)
        df  == filter_year(df1, yr)
    IN  IF FilterYearRaises(df1, yr) THEN Raise("KeyError", "ANO_REFERENCIA")
        ELSE IF Given(category) /\ ~HasColumn(df, "MODALIDADE")
        THEN Raise("KeyError", "MODALIDADE")
        ELSE BoxData(IF Given(category) THEN WhereEquals(df, "MODALIDADE", category[1]) ELSE df,
                     <<"ANO_REFERENCIA", "PROCESSO", "MODALIDADE", "VALOR_PAGO">>,
                     <<"VALOR_PAGO", "MODALIDADE">>)

\* Lines 324-348
agg_box_data_by_area(df0, yr, level, level_val) ==
    LET df1 == ensure_numeric_valor(df0)
        df  == filter_year(df1, yr)
    IN  IF FilterYearRaises(df1, yr) THEN Raise("KeyError", "ANO_REFERENCIA")
        ELSE IF ~HasColumn(df, level) THEN Raise("ValueError", level)
        ELSE BoxData(IF Given(level_val) THEN WhereEquals(df, level, level_val[1]) ELSE df,
                     <<"ANO_REFERENCIA", "PROCESSO", level, "VALOR_PAGO">>,
                     <<"VALOR_PAGO", level>>)

\* Lines 351-383
agg_box_data_by_area_and_category(df0, yr, level, level_val, category) ==
    LET df1 == ensure_numeric_valor(df0)
        df  == filter_year(df1, yr)
        byLevel(d) == IF Given(level_val) THEN WhereEquals(d, level, level_val[1]) ELSE d
        byCat(d)   == IF Given(category) THEN WhereEquals(d, "MODALIDADE", category[1]) ELSE d
    IN  IF FilterYearRaises(df1, yr) THEN Raise("KeyError", "ANO_REFERENCIA")
        ELSE IF ~HasColumn(df, level) THEN Raise("ValueError", level)
        ELSE IF ~HasColumn(df, "MODALIDADE") THEN Raise("ValueError", "MODALIDADE")
        ELSE BoxData(byCat(byLevel(df)),
                     <<"ANO_REFERENCIA", "PROCESSO", "MODALIDADE", level, "VALOR_PAGO">>,
                     <<"VALOR_PAGO", level, "MODALIDADE">>)

\* Line 393: the year column as nullable integers
WithYearInt64(df) ==
    Table(df.columns,
          [df.dtypes EXCEPT !["ANO_REFERENCIA"] = "Int64"],
          [i \in 1..Len(df.rows) |-> [df.rows[i] EXCEPT !["ANO_REFERENCIA"] = YearCell(df, df.rows[i])]])

\* groupby(by, as_index=False).agg(<mean>=("VALOR_PAGO", "mean")) with, when n
\* is not None, <n>=("VALOR_PAGO", "size")
MeanBy(df, by, names, mean, n) ==
    LET keys == GroupKeys(df, by)
        cols == names \o <<mean>> \o (IF n = None THEN << >> ELSE <<n>>)
        colset == {cols[k] : k \in 1..Len(cols)}
        pos(c) == CHOOSE k \in 1..Len(names) : names[k] = c
    IN  Table(cols,
              [c \in colset |->
                  IF c = mean THEN "float64" ELSE IF c = n THEN "int64"
                  ELSE df.dtypes[by[pos(c)]]],
              [j \in 1..Len(keys) |->
                  [c \in colset |->
                      IF c = mean THEN RMean(Amounts(Members(df, by, keys[j])))
                      ELSE IF c = n THEN Len(Members(df, by, keys[j]))
                      ELSE keys[j][pos(c)]]])

\* Lines 386-398
agg_time_mean_by_category(df0) ==
    LET df1 == ensure_numeric_valor(df0)
        by  == <<"ANO_REFERENCIA", "MODALIDADE">>
    IN  IF FirstMissing(df1, by) # None THEN Raise("KeyError", FirstMissing(df1, by))
        ELSE IF ~HasColumn(df1, "VALOR_PAGO") THEN Raise("KeyError", "VALOR_PAGO")
        ELSE Return(MeanBy(DropNaAny(WithYearInt64(df1), by), by, by, "media_valor", None))

\* Lines 608-625: the UF column chosen, or None
choose_uf_column(df, preference) ==
    LET dest_exists == HasColumn(df, "SIGLA_UF_DESTINO")
        orig_exists == HasColumn(df, "SIGLA_UF_ORIGEM")
        notna(c) == Cardinality({i \in 1..Len(df.rows) : df.rows[i][c] # NullOf(df.dtypes[c])})
    IN  IF preference = "DESTINO" /\ dest_exists THEN "SIGLA_UF_DESTINO"
        ELSE IF preference = "ORIGEM" /\ orig_exists THEN "SIGLA_UF_ORIGEM"
        ELSE IF dest_exists /\ orig_exists
        THEN (IF notna("SIGLA_UF_DESTINO") >= notna("SIGLA_UF_ORIGEM")
              THEN "SIGLA_UF_DESTINO" ELSE "SIGLA_UF_ORIGEM")
        ELSE IF dest_exists THEN "SIGLA_UF_DESTINO"
        ELSE IF orig_exists THEN "SIGLA_UF_ORIGEM"
        ELSE None

\* Line 641
WithUF(df, uf_col) ==
    Table(df.columns,
          [df.dtypes EXCEPT ![uf_col] = "string"],
          [i \in 1..Len(df.rows) |-> [df.rows[i] EXCEPT ![uf_col] = NormalizeUF(@)]])

\* Lines 628-654
mean_valor_pago_by_uf_for_year(df0, y, uf_preference) ==
    LET required == <<"ANO_REFERENCIA", "VALOR_PAGO">>
        df1    == ensure_numeric_valor(df0)
        uf_col == choose_uf_column(df1, uf_preference)
    IN  IF FirstMissing(df0, required) # None
        THEN Raise("ValueError", FirstMissing(df0, required))
        ELSE IF uf_col = None THEN Raise("ValueError", "UF")
        ELSE Return(SortedDesc(
                MeanBy(DropNaAny(filter_year(WithUF(WithYearInt64(df1), uf_col), <<y>>),
                                 <<uf_col>>),
                       <<uf_col>>, <<"UF">>, "media_valor_pago", "n"),
                "media_valor_pago"))

(***************************************************************************)
(* Frames given to the aggregations: the columns of the preprocessed file  *)
(* the charts use, typed as coerce_types leaves them.  A frame holds up to *)
(* MaxAggRows rows of AggRowPool (two payments of X and one of Y in one    *)
(* category, a censored name, a beneficiary without amount, rows with null *)
(* keys), or two typical rows with some columns missing, or the paid       *)
(* amounts still as text.                                                  *)
(***************************************************************************)
MaxAggRows == 3     \* rows of the frame given to an aggregation

AggColumns == <<"ANO_REFERENCIA", "PROCESSO", "BENEFICIARIO", "MODALIDADE", "AREA",
                "REGIAO_DESTINO", "SIGLA_UF_DESTINO", "VALOR_PAGO">>

AggRowPool == {
    [y |-> <<2023>>, p |-> <<"P","1">>, b |-> <<"X">>, m |-> <<"G","M">>, a |-> <<"F","I","S">>,
     r |-> <<"S","E">>, u |-> <<"S","P">>, v |-> <<0, 100, 0>>],
    [y |-> <<2023>>, p |-> <<"P","2">>, b |-> <<"X">>, m |-> <<"G","M">>, a |-> <<"F","I","S">>,
     r |-> <<"S","E">>, u |-> <<"S","P">>, v |-> <<0, 50, 0>>],
    [y |-> <<2023>>, p |-> <<"P","1">>, b |-> <<"Y">>, m |-> <<"G","M">>, a |-> <<"M","A","T">>,
     r |-> <<"N","E">>, u |-> <<"r","j">>, v |-> <<0, 300, 0>>],
    [y |-> <<2023>>, p |-> <<"P","2">>, b |-> <<"X","X","X","X">>, m |-> <<"G","M">>,
     a |-> <<"F","I","S">>, r |-> <<"S","E">>, u |-> <<"S","P">>, v |-> <<0, 40, 0>>],
    [y |-> <<2022>>, p |-> <<"P","3">>, b |-> <<"Z">>, m |-> <<"G","M">>, a |-> <<"M","A","T">>,
     r |-> NA, u |-> NA, v |-> NaN],
    [y |-> <<2023>>, p |-> NA, b |-> NA, m |-> <<"G","D">>, a |-> <<"F","I","S">>,
     r |-> <<"S","E">>, u |-> <<"s",".","p">>, v |-> <<0, 10, 0>>],
    [y |-> NaN, p |-> <<"P","1">>, b |-> <<"X","X","X"," ","X","X","X"," ","X","X","X">>,
     m |-> NA, a |-> NA, r |-> <<"N","E">>, u |-> <<"S","P">>, v |-> <<0, 7, 0>>] }

AggCell(c, row) ==
    CASE c = "ANO_REFERENCIA" -> row.y
      [] c = "PROCESSO" -> row.p
      [] c = "BENEFICIARIO" -> row.b
      [] c = "MODALIDADE" -> row.m
      [] c = "AREA" -> row.a
      [] c = "REGIAO_DESTINO" -> row.r
      [] c = "SIGLA_UF_DESTINO" -> row.u
      [] c = "VALOR_PAGO" -> row.v

\* The frame of the rows given, without the columns dropped
AggFrame(rows, dropped) ==
    LET cols == SelectSeq(AggColumns, LAMBDA c : c \notin dropped)
        colset == {cols[k] : k \in 1..Len(cols)}
    IN  Table(cols,
              [c \in colset |-> CoercedDtype(c)],
              [i \in 1..Len(rows) |-> [c \in colset |-> AggCell(c, rows[i])]])

TypicalAggRows ==
    << [y |-> <<2023>>, p |-> <<"P","1">>, b |-> <<"X">>, m |-> <<"G","M">>, a |-> <<"F","I","S">>,
        r |-> <<"S","E">>, u |-> <<"S","P">>, v |-> <<0, 100, 0>>],
       [y |-> <<2023>>, p |-> <<"P","1">>, b |-> <<"Y">>, m |-> <<"G","M">>, a |-> <<"M","A","T">>,
        r |-> <<"N","E">>, u |-> <<"r","j">>, v |-> <<0, 300, 0>>] >>

DropSets ==
    { {AggColumns[k]} : k \in 1..Len(AggColumns) } \cup { {"REGIAO_DESTINO", "SIGLA_UF_DESTINO"} }

\* The typical rows with the paid amounts not yet parsed
TextAmountFrame ==
    LET f == AggFrame(TypicalAggRows, {})
    IN  Table(f.columns,
              [f.dtypes EXCEPT !["VALOR_PAGO"] = "object"],
              << [f.rows[1] EXCEPT !["VALOR_PAGO"] = <<"1","0","0">>],
                 [f.rows[2] EXCEPT !["VALOR_PAGO"] = <<"x">>] >>)

OptYears == { << >>, <<2023>>, <<2025>> }
Hows == {"sum", "per_beneficiary_mean", "per_process_mean"}
Levels == {"AREA", "GRANDE_AREA"}
OptCategories == { << >>, << <<"G","M">> >>, << <<"Z","Z">> >> }
OptLevelVals == { << >>, << <<"F","I","S">> >>, << <<"Z","Z">> >> }
UFPreferences == {None, "DESTINO", "ORIGEM"}

Call(fn, yr, how, level, level_val, category, prefer_destino, uf_preference) ==
    [fn |-> fn, year |-> yr, how |-> how, level |-> level, level_val |-> level_val,
     category |-> category, prefer_destino |-> prefer_destino, uf_preference |-> uf_preference]

InitAgg ==
    /\ pc = "agg_start"
    /\ \/ \E n \in 0..MaxAggRows : \E rows \in [1..n -> AggRowPool] : agg_df = AggFrame(rows, {})
       \/ \E dropped \in DropSets : agg_df = AggFrame(TypicalAggRows, dropped)
       \/ agg_df = TextAmountFrame
    /\ agg_call = Idle
    /\ agg_out = Idle
    /\ EarlyIdle /\ DiscIdle /\ ReadIdle /\ SaveIdle /\ UnifyIdle /\ BuildIdle /\ LogIdle

AggDone(call, res) ==
    /\ pc = "agg_start"
    /\ agg_call' = call
    /\ agg_out' = res
    /\ pc' = "aggregated"
    /\ UNCHANGED <<agg_df, earlyVars, discVars, readVars, saveVars, unifyVars, buildVars, logVars>>

AggTotalInvestByRegion ==
    \E yr \in OptYears : \E prefer_destino \in BOOLEAN :
        AggDone(Call("agg_total_invest_by_region", yr, None, None, << >>, << >>,
                        prefer_destino, None),
                   agg_total_invest_by_region(agg_df, yr, prefer_destino))

AggTotalInvestByArea ==
    \E yr \in OptYears : \E level \in Levels :
        AggDone(Call("agg_total_invest_by_area", yr, None, level, << >>, << >>, TRUE, None),
                   agg_total_invest_by_area(agg_df, yr, level))

AggInvestByCategory ==
    \E yr \in OptYears : \E how \in Hows :
        AggDone(Call("agg_invest_by_category", yr, how, None, << >>, << >>, TRUE, None),
                agg_invest_by_category(agg_df, yr, how))

AggBoxDataByCategory ==
    \E yr \in OptYears : \E category \in OptCategories :
        AggDone(Call("agg_box_data_by_category", yr, None, None, << >>, category, TRUE, None),
                   agg_box_data_by_category(agg_df, yr, category))

AggBoxDataByArea ==
    \E yr \in OptYears : \E level \in Levels : \E level_val \in OptLevelVals :
        AggDone(Call("agg_box_data_by_area", yr, None, level, level_val, << >>, TRUE, None),
                   agg_box_data_by_area(agg_df, yr, level, level_val))

AggBoxDataByAreaAndCategory ==
    \E yr \in OptYears : \E level_val \in OptLevelVals : \E category \in OptCategories :
        AggDone(Call("agg_box_data_by_area_and_category", yr, None, "AREA", level_val,
                        category, TRUE, None),
                   agg_box_data_by_area_and_category(agg_df, yr, "AREA", level_val, category))

AggTimeMeanByCategory ==
    AggDone(Call("agg_time_mean_by_category", << >>, None, None, << >>, << >>, TRUE, None),
            agg_time_mean_by_category(agg_df))

MeanValorPagoByUfForYear ==
    \E yr \in OptYears : \E uf_preference \in UFPreferences :
        /\ Given(yr)
        /\ AggDone(Call("mean_valor_pago_by_uf_for_year", yr, None, None, << >>, << >>, TRUE,
                        uf_preference),
                   mean_valor_pago_by_uf_for_year(agg_df, yr[1], uf_preference))

NextAgg ==
    \/ AggTotalInvestByRegion \/ AggTotalInvestByArea \/ AggInvestByCategory
    \/ AggBoxDataByCategory \/ AggBoxDataByArea \/ AggBoxDataByAreaAndCategory
    \/ AggTimeMeanByCategory \/ MeanValorPagoByUfForYear

SpecAgg == InitAgg /\ [][NextAgg]_vars

(***************************************************************************)
(* Aggregations: claims C21 to C23 and C30.                                *)
(***************************************************************************)
Aggregated == pc = "aggregated"

CategoryCall == Aggregated /\ agg_call.fn = "agg_invest_by_category"

MeanHows == {"per_beneficiary_mean", "per_process_mean"}

EntityColumn(how) == IF how = "per_beneficiary_mean" THEN "BENEFICIARIO" ELSE "PROCESSO"

\* The row is of the year asked for, if one was
InYear(r) == ~Given(agg_call.year) \/ r["ANO_REFERENCIA"] = agg_call.year

CensoredNames == { <<"X","X","X","X">>, <<"X","X","X"," ","X","X","X"," ","X","X","X">> }

\* The rows of the frame given that the claims say count for the metric how
Counted(r, how) ==
    /\ InYear(r)
    /\ r["MODALIDADE"] # NA
    /\ how \in MeanHows => r[EntityColumn(how)] # NA
    /\ how = "per_beneficiary_mean" => r["BENEFICIARIO"] \notin CensoredNames

CountedIn(how, m) == SelectSeq(agg_df.rows, LAMBDA r : Counted(r, how) /\ r["MODALIDADE"] = m)

CategoriesCounted(how) ==
    {agg_df.rows[i]["MODALIDADE"] : i \in {i \in 1..Len(agg_df.rows) : Counted(agg_df.rows[i], how)}}

EntitiesIn(how, m) ==
    {CountedIn(how, m)[i][EntityColumn(how)] : i \in 1..Len(CountedIn(how, m))}

\* The sum of the non-null amounts paid to one entity in one category
PaidTo(how, m, e) ==
    RSum(Amounts(SelectSeq(CountedIn(how, m), LAMBDA r : r[EntityColumn(how)] = e)))

RECURSIVE SumPaidTo(_, _, _)
SumPaidTo(how, m, es) ==
    IF es = {} THEN <<0, 1>>
    ELSE LET e == CHOOSE x \in es : TRUE
         IN  RAdd(PaidTo(how, m, e), SumPaidTo(how, m, es \ {e}))

MeanPaidPerEntity(how, m) ==
    Ratio(SumPaidTo(how, m, EntitiesIn(how, m))[1],
          SumPaidTo(how, m, EntitiesIn(how, m))[2] * Cardinality(EntitiesIn(how, m)))

AmountsAreNumbers == HasColumn(agg_df, "VALOR_PAGO") /\ agg_df.dtypes["VALOR_PAGO"] = "float64"

\* C21: with how="per_beneficiary_mean" or "per_process_mean" the value of a
\* category is the mean, over the entities counted in it, of the sum of the
\* amounts paid to each entity, and every category with an entity has a value.
C21_MeanOverEntitySums ==
    (CategoryCall /\ ~agg_out.raised /\ agg_call.how \in MeanHows /\ AmountsAreNumbers) =>
        /\ {agg_out.table.rows[j]["MODALIDADE"] : j \in 1..Len(agg_out.table.rows)}
             = CategoriesCounted(agg_call.how)
        /\ \A j \in 1..Len(agg_out.table.rows) :
             agg_out.table.rows[j]["valor_em_reais"]
               = MeanPaidPerEntity(agg_call.how, agg_out.table.rows[j]["MODALIDADE"])

C21_Witness ==
    /\ CategoryCall
    /\ agg_call.how = "per_beneficiary_mean"
    /\ agg_call.year = << >>
    /\ Len(agg_df.rows) = 3
    /\ \A i \in 1..3 : agg_df.rows[i]["MODALIDADE"] = <<"G","M">>
    /\ [i \in 1..3 |-> agg_df.rows[i]["BENEFICIARIO"]] = << <<"X">>, <<"X">>, <<"Y">> >>
    /\ [i \in 1..3 |-> agg_df.rows[i]["VALOR_PAGO"]] = << <<0, 100, 0>>, <<0, 50, 0>>, <<0, 300, 0>> >>
    /\ ~agg_out.raised
    /\ Len(agg_out.table.rows) = 1
    /\ agg_out.table.rows[1]["valor_em_reais"] = <<225, 1>>

\* The claim's required columns: the grouping dimension of the function.  By
\* region it is the first of REGIAO_DESTINO, REGIAO, SIGLA_UF_DESTINO (only
\* with prefer_destino) and SIGLA_UF_ORIGEM that the frame has (lines 217-226).
GroupingMissing ==
    CASE agg_call.fn = "agg_total_invest_by_region" ->
             /\ \A c \in {"REGIAO_DESTINO", "REGIAO", "SIGLA_UF_ORIGEM"} : ~HasColumn(agg_df, c)
             /\ ~(agg_call.prefer_destino /\ HasColumn(agg_df, "SIGLA_UF_DESTINO"))
      [] agg_call.fn \in {"agg_total_invest_by_area", "agg_box_data_by_area"} ->
             ~HasColumn(agg_df, agg_call.level)
      [] agg_call.fn \in {"agg_invest_by_category", "agg_box_data_by_category"} ->
             ~HasColumn(agg_df, "MODALIDADE")
      [] agg_call.fn = "agg_box_data_by_area_and_category" ->
             ~HasColumn(agg_df, agg_call.level) \/ ~HasColumn(agg_df, "MODALIDADE")
      [] agg_call.fn = "agg_time_mean_by_category" ->
             ~HasColumn(agg_df, "ANO_REFERENCIA") \/ ~HasColumn(agg_df, "MODALIDADE")
      [] agg_call.fn = "mean_valor_pago_by_uf_for_year" ->
             ~HasColumn(agg_df, "SIGLA_UF_DESTINO") /\ ~HasColumn(agg_df, "SIGLA_UF_ORIGEM")

YearMissing == Given(agg_call.year) /\ ~HasColumn(agg_df, "ANO_REFERENCIA")

AmountMissing == ~HasColumn(agg_df, "VALOR_PAGO")

\* C22: a call of any of the eight functions on a frame without its grouping
\* dimension, without the reference year when a year is given, or without
\* the paid amount raises a missing-column error and returns no table.
C22_MissingColumnRaises ==
    (Aggregated /\ (GroupingMissing \/ YearMissing \/ AmountMissing)) =>
        /\ agg_out.raised
        /\ agg_out.error \in {"KeyError", "ValueError"}
        /\ agg_out.column # ""
        /\ agg_out.table = NoTable

C22_Witness ==
    /\ Aggregated
    /\ agg_call.fn = "agg_total_invest_by_region"
    /\ AmountMissing
    /\ ~GroupingMissing
    /\ Len(agg_df.rows) = 2
    /\ agg_out.raised
    /\ agg_out.column = "VALOR_PAGO"

\* The columns the call reads
NeededColumns ==
    (IF Given(agg_call.year) THEN {"ANO_REFERENCIA"} ELSE {})
    \cup {"VALOR_PAGO"}
    \cup CASE agg_call.fn = "agg_total_invest_by_area" -> {agg_call.level}
           [] agg_call.fn = "agg_invest_by_category" ->
                  {"MODALIDADE"} \cup (IF agg_call.how \in MeanHows
                                       THEN {EntityColumn(agg_call.how)} ELSE {})
           [] agg_call.fn = "agg_box_data_by_category" ->
                  {"ANO_REFERENCIA", "PROCESSO", "MODALIDADE"}
           [] agg_call.fn = "agg_box_data_by_area" ->
                  {"ANO_REFERENCIA", "PROCESSO", agg_call.level}
           [] agg_call.fn = "agg_box_data_by_area_and_category" ->
                  {"ANO_REFERENCIA", "PROCESSO", "MODALIDADE", agg_call.level}
           [] OTHER -> {}

\* The columns of the table the call returns
ResultColumns ==
    CASE agg_call.fn = "agg_total_invest_by_region" -> <<"REGIAO", "valor_total", "n_linhas">>
      [] agg_call.fn = "agg_total_invest_by_area" -> <<agg_call.level, "valor_total", "n_linhas">>
      [] agg_call.fn = "agg_invest_by_category" -> <<"MODALIDADE", "valor_em_reais", "n_unicos">>
      [] agg_call.fn = "agg_box_data_by_category" ->
             <<"ANO_REFERENCIA", "PROCESSO", "MODALIDADE", "VALOR_PAGO">>
      [] agg_call.fn = "agg_box_data_by_area" ->
             <<"ANO_REFERENCIA", "PROCESSO", agg_call.level, "VALOR_PAGO">>
      [] agg_call.fn = "agg_box_data_by_area_and_category" ->
             <<"ANO_REFERENCIA", "PROCESSO", "MODALIDADE", agg_call.level, "VALOR_PAGO">>
      [] agg_call.fn = "agg_time_mean_by_category" ->
             <<"ANO_REFERENCIA", "MODALIDADE", "media_valor">>
      [] agg_call.fn = "mean_valor_pago_by_uf_for_year" -> <<"UF", "media_valor_pago", "n">>

\* The call gives a year, a category or an area value
Filtered == Given(agg_call.year) \/ Given(agg_call.category) \/ Given(agg_call.level_val)

\* The row passes every filter the call gives
PassesFilters(r) ==
    /\ InYear(r)
    /\ Given(agg_call.category) => r["MODALIDADE"] = agg_call.category[1]
    /\ Given(agg_call.level_val) => r[agg_call.level] = agg_call.level_val[1]

AllNeededPresent ==
    /\ \A c \in NeededColumns : HasColumn(agg_df, c)
    /\ ~GroupingMissing

\* C23: when the columns the call reads are all there and no row passes the
\* year, category or area filter given, the call returns a table without
\* rows that has the columns of the function's result.
C23_NoMatchGivesEmptyTable ==
    (Aggregated /\ Filtered /\ AllNeededPresent
       /\ \A i \in 1..Len(agg_df.rows) : ~PassesFilters(agg_df.rows[i])) =>
        /\ ~agg_out.raised
        /\ agg_out.table.rows = << >>
        /\ agg_out.table.columns = ResultColumns

C23_Witness ==
    /\ CategoryCall
    /\ agg_call.how = "per_beneficiary_mean"
    /\ agg_call.year = <<2025>>
    /\ Len(agg_df.rows) = 3
    /\ AllNeededPresent
    /\ ~agg_out.raised
    /\ agg_out.table.rows = << >>
    /\ agg_out.table.columns = <<"MODALIDADE", "valor_em_reais", "n_unicos">>

\* The sum of the non-null amounts of the rows counted in a category
TotalIn(how, m) == RSum(Amounts(CountedIn(how, m)))

\* C30: with how="per_beneficiary_mean" the rows with a censored name, a null
\* beneficiary or a null category count for nothing: the categories, the
\* number of beneficiaries and the amounts are those of the other rows, and a
\* beneficiary without any amount is counted with the sum 0.  With how="sum"
\* every row with a category counts, and with how="per_process_mean" every
\* row with a category and a process, the censored names included.
C30_CensoredOnlyInBeneficiaryMean ==
    (CategoryCall /\ ~agg_out.raised /\ AmountsAreNumbers) =>
        /\ Len(agg_out.table.rows) = Cardinality(CategoriesCounted(agg_call.how))
        /\ \A j \in 1..Len(agg_out.table.rows) :
             LET row == agg_out.table.rows[j]
                 m   == row["MODALIDADE"]
             IN  /\ m \in CategoriesCounted(agg_call.how)
                 /\ row["n_unicos"] =
                      IF agg_call.how = "sum" THEN Len(CountedIn("sum", m))
                      ELSE Cardinality(EntitiesIn(agg_call.how, m))
                 /\ RAdd(<<0, 1>>, <<row["valor_em_reais"][1] *
                                       (IF agg_call.how = "sum" THEN 1 ELSE row["n_unicos"]),
                                     row["valor_em_reais"][2]>>)
                      = TotalIn(agg_call.how, m)

C30_Witness ==
    /\ CategoryCall
    /\ agg_call.how = "per_beneficiary_mean"
    /\ agg_call.year = << >>
    /\ Len(agg_df.rows) = 3
    /\ [i \in 1..3 |-> agg_df.rows[i]["BENEFICIARIO"]]
         = << <<"X">>, <<"X","X","X","X">>, <<"Z">> >>
    /\ [i \in 1..3 |-> agg_df.rows[i]["VALOR_PAGO"]] = << <<0, 100, 0>>, <<0, 40, 0>>, NaN >>
    /\ ~agg_out.raised
    /\ Len(agg_out.table.rows) = 1
    /\ agg_out.table.rows[1]["n_unicos"] = 2
    /\ agg_out.table.rows[1]["valor_em_reais"] = <<50, 1>>

====
